---- MODULE Spec2Model ----
(***************************************************************************)
(* A model of the prediction-market paper-trading backend:                 *)
(*   backend/trading.py   RiskManager, PositionManager, PaperTrader,       *)
(*                        TradingEngine                                    *)
(*   backend/main.py      create_trade, update_trade (the trades API)      *)
(*   scripts/check_resolutions.py   the resolution-check script            *)
(*                                                                         *)
(* Units.  Amounts are whole dollars.  Prices are hundredths of a dollar   *)
(* (60 is 0.60).  Every quotient the code computes in floating point       *)
(* (shares, pnl, roi, clv) is an exact fraction <<n, d>> in lowest terms   *)
(* with d > 0.  An Optional value is the empty tuple (None) or a           *)
(* one-element tuple.  The clock counts hours of UTC; the server's local    *)
(* time is the clock plus the utc_offset of its environment.               *)
(***************************************************************************)
EXTENDS Integers, Sequences, FiniteSets, TLC

\* ------------------------------------------------------------ bounds
\* The ledger holds at most MaxTrades rows.
MaxTrades == 2
\* A day of trading one call after another: the ledger holds at most
\* MaxDayTrades rows, and the clock goes to MaxHours.
MaxDayTrades == 3
MaxHours == 33
\* Request slots that run execute_opportunity concurrently.
NumProcs == 2
\* The clock stops after MaxTime days.
MaxTime == 1
\* update_trade requests served (each appends one audit log entry).
MaxUpdates == 1

\* ------------------------------------------------------------ values
None == <<>>
Some(v) == <<v>>
IsNone(x) == x = <<>>
Val(x) == x[1]

Abs(n) == IF n < 0 THEN -n ELSE n

RECURSIVE GCD(_, _)
GCD(a, b) == IF b = 0 THEN a ELSE GCD(b, a % b)

\* The fraction n/d in lowest terms, d > 0 (d # 0 is the caller's duty).
Frac(n, d) ==
    LET g == GCD(Abs(n), Abs(d))
        s == IF d < 0 THEN -1 ELSE 1
    IN  <<(s * n) \div g, (s * d) \div g>>

FracOfInt(n) == <<n, 1>>
FracAdd(a, b) == Frac(a[1] * b[2] + b[1] * a[2], a[2] * b[2])
FracSub(a, b) == Frac(a[1] * b[2] - b[1] * a[2], a[2] * b[2])
FracMul(a, b) == Frac(a[1] * b[1], a[2] * b[2])
FracDiv(a, b) == Frac(a[1] * b[2], a[2] * b[1])
FracGt(a, b) == a[1] * b[2] > b[1] * a[2]
\* Python truthiness of a float: nonzero.
FracTruthy(a) == a[1] # 0

\* round(n / d) for d > 0, a tie going to the even neighbour as Python's
\* round does; the binary representation error of the float is left out.
RoundHalfEven(n, d) ==
    LET q == n \div d
        r == n - q * d
    IN  IF 2 * r < d THEN q
        ELSE IF 2 * r > d THEN q + 1
        ELSE IF q % 2 = 0 THEN q ELSE q + 1

\* A price in hundredths as a fraction of a dollar.
Price(p) == Frac(p, 100)

\* ------------------------------------------------------------ inputs
Procs == 1..NumProcs

TradeStatusValues == {"open", "resolved_win", "resolved_loss", "cancelled"}

\* Settings are read from the environment (pydantic BaseSettings); the
\* defaults are 100 / 1000.  The model runs under one of these environments.
SettingsEnv ==
    { [max_position_size |-> 50, max_total_exposure |-> 100,
       paper_trading |-> TRUE, utc_offset |-> 0],
      [max_position_size |-> 100, max_total_exposure |-> 100,
       paper_trading |-> TRUE, utc_offset |-> 0] }

\* Market snapshots an opportunity can carry (platform, market id, prices).
Markets ==
    { [platform |-> "polymarket", market_id |-> "1",
       yes_price |-> Some(60), no_price |-> Some(40)],
      [platform |-> "kalshi", market_id |-> "1",
       yes_price |-> Some(60), no_price |-> Some(40)] }

Polymarket1 == CHOOSE m \in Markets : m.platform = "polymarket"
Kalshi1 == CHOOSE m \in Markets : m.platform = "kalshi"

\* MarketOpportunity, reduced to the fields the engine reads.
Opportunity(market, strategy, recommended_side, recommended_amount) ==
    [market |-> market, strategy |-> strategy,
     recommended_side |-> recommended_side,
     recommended_amount |-> recommended_amount]

\* The opportunities the strategies hand to the engine in the model.
Opportunities ==
    { Opportunity(Polymarket1, "nothing_ever_happens", "yes", 70),
      Opportunity(Polymarket1, "yield_farming", "no", 30),
      Opportunity(Kalshi1, "yield_farming", "yes", 30) }

\* TradeCreate bodies posted to /api/trades (entry_price in [0.01, 0.99],
\* amount > 0, as the pydantic model validates).
TradeCreates ==
    { [platform |-> "polymarket", market_id |-> "1", side |-> "no",
       entry_price |-> 40, amount |-> 70, strategy |-> "yield_farming"] }

\* TradeUpdate bodies put to /api/trades/{id}: a record of the fields the
\* request sets (model_dump(exclude_unset=True)).
TradeUpdates ==
    { [status |-> "resolved_win", resolution_date |-> Some(0),
       resolution_outcome |-> Some("yes"), closing_price |-> Some(50),
       lessons |-> Some("ok")],
      [status |-> "resolved_loss"],
      [status |-> "cancelled"],
      [status |-> "open"],
      [closing_price |-> Some(70)] }

\* What the platform adapter reports for a market: None (no data), or the
\* market's resolved flag, outcome and final prices.
Resolutions ==
    { None,
      Some([resolved |-> FALSE, resolution_outcome |-> None,
            final_yes_price |-> Some(60), final_no_price |-> Some(40)]),
      Some([resolved |-> TRUE, resolution_outcome |-> Some("yes"),
            final_yes_price |-> Some(100), final_no_price |-> Some(0)]),
      Some([resolved |-> TRUE, resolution_outcome |-> Some("no"),
            final_yes_price |-> Some(1), final_no_price |-> Some(99)]) }

\* ------------------------------------------------------------ state
VARIABLES
    settings,      \* config.settings, fixed at start-up
    now,           \* the clock, UTC, in hours
    ledger,        \* the trades table: a sequence of TradeDB rows, by id
    log,           \* trades.jsonl, the append-only audit log
    pc,            \* per request slot: where its execute_opportunity call is
    opp,           \* per slot: the opportunity of the call
    force,         \* per slot: the force flag of the call
    positions,     \* per slot: local `positions` of execute_opportunity
    exp_positions, \* per slot: local `positions` inside get_exposure
    risk,          \* per slot: local `risk_check` (None before the check)
    new_trade,     \* per slot: the row PaperTrader built (None before)
    result,        \* per slot: the TradeResult of its last call (None before)
    origin,        \* history: for each ledger row, the operation that wrote it
    writes,        \* history: ledger and log writes made by the slot's call
    n_updates,     \* update_trade requests served so far
    script_todo,   \* check_resolutions: the open trades it read, still to check
    script_dry,    \* check_resolutions: its --dry-run flag
    args,          \* the arguments of a function applied on its own (or None)
    ret            \* what the function returned (None before it is applied)

vars == <<settings, now, ledger, log, pc, opp, force, positions, exp_positions,
          risk, new_trade, result, origin, writes, n_updates, script_todo,
          script_dry, args, ret>>

fn == <<args, ret>>

script == <<script_todo, script_dry>>

locals == <<pc, opp, force, positions, exp_positions, risk, new_trade, result,
            writes>>

\* ------------------------------------------------------------ helpers
RECURSIVE SumAmount(_)
SumAmount(s) == IF s = <<>> THEN 0 ELSE Head(s).amount + SumAmount(Tail(s))


Range(s) == {s[i] : i \in DOMAIN s}

\* ------------------------------------------------------------ PositionManager
\* Position(...) as get_positions builds it from one open row.
Position(trade) ==
    [trade_id |-> trade.id, platform |-> trade.platform,
     market_id |-> trade.market_id, side |-> trade.side,
     entry_price |-> trade.entry_price, amount |-> trade.amount,
     shares |-> IF FracTruthy(trade.shares) THEN trade.shares ELSE FracOfInt(0),
     current_value |-> trade.amount, unrealized_pnl |-> 0,
     strategy |-> trade.strategy, opened_at |-> trade.created_at]

\* get_positions without its status filter: every row is a position.
get_positions_AllRows(db) ==
    [i \in 1..Len(db) |-> Position(db[i])]

\* select(TradeDB).where(status == "open"), projected to Position.
get_positions(db) ==
    LET trades == SelectSeq(db, LAMBDA t : t.status = "open")
    IN  [i \in 1..Len(trades) |-> Position(trades[i])]

HoursPerDay == 24

\* today_start = datetime.combine(date.today(), datetime.min.time()): the
\* midnight that began the server's local day, as a naive datetime.
today_start(clock, utc_offset) ==
    ((clock + utc_offset) \div HoursPerDay) * HoursPerDay

\* select(TradeDB).where(created_at >= today_start): created_at is the naive
\* datetime.utcnow() of the write, compared with the local midnight as is.
today_trades(db, clock, utc_offset) ==
    SelectSeq(db, LAMBDA t : t.created_at >= today_start(clock, utc_offset))

\* by_platform / by_strategy: per-key sums over the positions.
GroupSum(pos, field) ==
    [k \in {p[field] : p \in Range(pos)} |->
        SumAmount(SelectSeq(pos, LAMBDA p : p[field] = k))]

Max(a, b) == IF a >= b THEN a ELSE b

\* The ExposureReport get_exposure returns, from its two reads.
ExposureReport(pos, today, s) ==
    LET total_exposure == SumAmount(pos)
        daily_traded == SumAmount(today)
        daily_limit == s.max_total_exposure * 2
    IN  [total_exposure |-> total_exposure,
         available_capital |-> Max(0, s.max_total_exposure - total_exposure),
         position_count |-> Len(pos),
         by_platform |-> GroupSum(pos, "platform"),
         by_strategy |-> GroupSum(pos, "strategy"),
         daily_traded |-> daily_traded,
         daily_limit |-> daily_limit,
         daily_remaining |-> Max(0, daily_limit - daily_traded)]

\* PositionManager.get_exposure with nothing between its two reads.
get_exposure(db, clock, s) ==
    ExposureReport(get_positions(db), today_trades(db, clock, s.utc_offset), s)

\* ------------------------------------------------------------ RiskManager
\* A RiskManager whose default daily volume is the exposure cap itself.
RiskManager_DailyAtExposureCap(max_position_size, max_total_exposure, max_daily_volume, max_positions_per_market) ==
    [max_position_size |-> max_position_size,
     max_total_exposure |-> max_total_exposure,
     max_daily_volume |->
        IF IsNone(max_daily_volume) \/ Val(max_daily_volume) = 0
        THEN max_total_exposure ELSE Val(max_daily_volume),
     max_positions_per_market |-> max_positions_per_market]

\* RiskManager.__init__; max_daily_volume is an Optional.
RiskManager(max_position_size, max_total_exposure, max_daily_volume, max_positions_per_market) ==
    [max_position_size |-> max_position_size,
     max_total_exposure |-> max_total_exposure,
     max_daily_volume |->
        IF IsNone(max_daily_volume) \/ Val(max_daily_volume) = 0
        THEN max_total_exposure * 2 ELSE Val(max_daily_volume),
     max_positions_per_market |-> max_positions_per_market]

\* TradingEngine.__init__ builds RiskManager() from the settings defaults.
EngineRiskManager(s) ==
    RiskManager(s.max_position_size, s.max_total_exposure, None, 1)

RiskCheckResult(allowed, reason, details) ==
    [allowed |-> allowed, reason |-> reason, details |-> details]

\* check_limits with the total-exposure check ahead of the position-size check.
check_limits_ExposureFirst(rm, opportunity, current_exposure, existing_positions) ==
    LET trade_amount == opportunity.recommended_amount
        new_total == current_exposure.total_exposure + trade_amount
        new_daily == current_exposure.daily_traded + trade_amount
        market_positions ==
            SelectSeq(existing_positions,
                      LAMBDA p : /\ p.platform = opportunity.market.platform
                                 /\ p.market_id = opportunity.market.market_id)
    IN  IF new_total > rm.max_total_exposure
        THEN RiskCheckResult(FALSE, "would exceed max total exposure",
                [limit |-> "max_total_exposure",
                 current |-> current_exposure.total_exposure,
                 after |-> new_total, max |-> rm.max_total_exposure])
        ELSE IF trade_amount > rm.max_position_size
        THEN RiskCheckResult(FALSE, "exceeds max position size",
                [limit |-> "max_position_size", requested |-> trade_amount,
                 max |-> rm.max_position_size])
        ELSE IF new_daily > rm.max_daily_volume
        THEN RiskCheckResult(FALSE, "would exceed daily limit",
                [limit |-> "daily_volume",
                 today |-> current_exposure.daily_traded,
                 after |-> new_daily, max |-> rm.max_daily_volume])
        ELSE IF Len(market_positions) >= rm.max_positions_per_market
        THEN RiskCheckResult(FALSE, "already have position(s) in this market",
                [limit |-> "positions_per_market",
                 current |-> Len(market_positions),
                 max |-> rm.max_positions_per_market])
        ELSE RiskCheckResult(TRUE, "All risk checks passed",
                [trade_amount |-> trade_amount,
                 new_total_exposure |-> new_total,
                 new_daily_volume |-> new_daily])

\* RiskManager.check_limits: the four checks, in the code's order.
check_limits(rm, opportunity, current_exposure, existing_positions) ==
    LET trade_amount == opportunity.recommended_amount
        new_total == current_exposure.total_exposure + trade_amount
        new_daily == current_exposure.daily_traded + trade_amount
        market_positions ==
            SelectSeq(existing_positions,
                      LAMBDA p : /\ p.platform = opportunity.market.platform
                                 /\ p.market_id = opportunity.market.market_id)
    IN  IF trade_amount > rm.max_position_size
        THEN RiskCheckResult(FALSE, "exceeds max position size",
                [limit |-> "max_position_size", requested |-> trade_amount,
                 max |-> rm.max_position_size])
        ELSE IF new_total > rm.max_total_exposure
        THEN RiskCheckResult(FALSE, "would exceed max total exposure",
                [limit |-> "max_total_exposure",
                 current |-> current_exposure.total_exposure,
                 after |-> new_total, max |-> rm.max_total_exposure])
        ELSE IF new_daily > rm.max_daily_volume
        THEN RiskCheckResult(FALSE, "would exceed daily limit",
                [limit |-> "daily_volume",
                 today |-> current_exposure.daily_traded,
                 after |-> new_daily, max |-> rm.max_daily_volume])
        ELSE IF Len(market_positions) >= rm.max_positions_per_market
        THEN RiskCheckResult(FALSE, "already have position(s) in this market",
                [limit |-> "positions_per_market",
                 current |-> Len(market_positions),
                 max |-> rm.max_positions_per_market])
        ELSE RiskCheckResult(TRUE, "All risk checks passed",
                [trade_amount |-> trade_amount,
                 new_total_exposure |-> new_total,
                 new_daily_volume |-> new_daily])

\* ------------------------------------------------------------ ledger rows
\* TradeDB(...) as PaperTrader.execute_trade and create_trade fill it: the
\* resolution columns are NULL, the status is open.
TradeDB(id, created_at, platform, market_id, side, entry_price, amount, shares, strategy) ==
    [id |-> id, created_at |-> created_at, platform |-> platform,
     market_id |-> market_id, side |-> side, entry_price |-> entry_price,
     amount |-> amount, shares |-> shares, strategy |-> strategy,
     status |-> "open",
     resolution_date |-> None, resolution_outcome |-> None,
     closing_price |-> None, pnl |-> None, roi |-> None, clv |-> None,
     was_good_trade |-> None, lessons |-> None]

\* TradeResult(success, trade, error, paper_trade)
TradeResult(success, trade, error, paper_trade) ==
    [success |-> success, trade |-> trade, error |-> error,
     paper_trade |-> paper_trade]

\* A call that ends by raising: the exception the caller gets in place of a
\* TradeResult.
Raised(exc) == [raised |-> exc]

\* Trade(...) accepts the row: TradeSide(side), entry_price in [0.01, 0.99],
\* amount > 0.  Pydantic raises a ValidationError otherwise.
TradeValid(row) ==
    /\ row.side \in {"yes", "no"}
    /\ row.entry_price >= 1 /\ row.entry_price <= 99
    /\ row.amount > 0

\* The Trade model execute_trade returns: the row's creation fields and status.
TradeOfRow(row) ==
    [id |-> row.id, created_at |-> row.created_at, platform |-> row.platform,
     market_id |-> row.market_id, side |-> row.side,
     entry_price |-> row.entry_price, amount |-> row.amount,
     shares |-> row.shares, strategy |-> row.strategy, status |-> row.status]

\* ------------------------------------------------------------ PaperTrader
\* What execute_trade hands back once the row and the log line are written:
\* the TradeResult, or the ValidationError of the Trade conversion.
PaperResult(row) ==
    IF TradeValid(row)
    THEN TradeResult(TRUE, Some(TradeOfRow(row)), None, TRUE)
    ELSE Raised("ValidationError")

\* LiveTrader.execute_trade raises before it does anything.
LiveResult == Raised("NotImplementedError")

\* The price of the recommended side.
EntryPrice(opportunity) ==
    IF opportunity.recommended_side = "yes"
    THEN opportunity.market.yes_price ELSE opportunity.market.no_price

\* The product where the code has the quotient.
Shares_Product(amount, entry_price) ==
    FracMul(FracOfInt(amount), Price(entry_price))

\* shares = recommended_amount / entry_price
Shares(amount, entry_price) == FracDiv(FracOfInt(amount), Price(entry_price))

\* The row execute_trade builds (its id is the uuid, set when it is written).
PaperTradeRow(opportunity, utc) ==
    TradeDB(0, utc, opportunity.market.platform, opportunity.market.market_id,
            opportunity.recommended_side, Val(EntryPrice(opportunity)),
            opportunity.recommended_amount,
            Shares(opportunity.recommended_amount, Val(EntryPrice(opportunity))),
            opportunity.strategy)

\* The audit line under an id that is not the id of the row.
PaperLogEntry_OtherId(row) ==
    [action |-> "paper_trade_executed", trade_id |-> row.id + 1,
     strategy |-> row.strategy, market_id |-> row.market_id, side |-> row.side,
     amount |-> row.amount, entry_price |-> row.entry_price,
     shares |-> row.shares]

\* The paper_trade_executed line of trades.jsonl.
PaperLogEntry(row) ==
    [action |-> "paper_trade_executed", trade_id |-> row.id,
     strategy |-> row.strategy, market_id |-> row.market_id, side |-> row.side,
     amount |-> row.amount, entry_price |-> row.entry_price,
     shares |-> row.shares]

\* ------------------------------------------------------------ Init
\* Everything but the function arguments: the state after start-up, with an
\* empty ledger and no request in flight.
Quiet ==
    /\ now = 0
    /\ ledger = <<>>
    /\ log = <<>>
    /\ origin = <<>>
    /\ n_updates = 0
    /\ script_todo = <<>>
    /\ script_dry = FALSE
    /\ pc = [p \in Procs |-> "idle"]
    /\ opp = [p \in Procs |-> None]
    /\ force = [p \in Procs |-> FALSE]
    /\ positions = [p \in Procs |-> <<>>]
    /\ exp_positions = [p \in Procs |-> <<>>]
    /\ risk = [p \in Procs |-> None]
    /\ new_trade = [p \in Procs |-> None]
    /\ result = [p \in Procs |-> None]
    /\ writes = [p \in Procs |-> 0]

Started ==
    /\ settings \in SettingsEnv
    /\ Quiet

Init ==
    /\ Started
    /\ args = None
    /\ ret = None

\* Rows may still be written while the ledger has room for them and for the
\* rows of the calls that wait at their commit.
LedgerHasRoom ==
    Len(ledger) + Cardinality({q \in Procs : pc[q] = "commit"}) < MaxTrades

\* ------------------------------------------------------------ TradingEngine
\* execute_opportunity, from the call to its first await: get_positions.
ExecuteOpportunity(p, o, f) ==
    /\ pc[p] = "idle"
    /\ pc' = [pc EXCEPT ![p] = "get_exposure"]
    /\ opp' = [opp EXCEPT ![p] = Some(o)]
    /\ force' = [force EXCEPT ![p] = f]
    /\ positions' = [positions EXCEPT ![p] = get_positions(ledger)]
    /\ exp_positions' = [exp_positions EXCEPT ![p] = <<>>]
    /\ risk' = [risk EXCEPT ![p] = None]
    /\ new_trade' = [new_trade EXCEPT ![p] = None]
    /\ result' = [result EXCEPT ![p] = None]
    /\ writes' = [writes EXCEPT ![p] = 0]
    /\ UNCHANGED <<settings, fn, now, ledger, log, origin, n_updates, script>>

\* get_exposure's own get_positions read.
GetExposurePositions(p) ==
    /\ pc[p] = "get_exposure"
    /\ pc' = [pc EXCEPT ![p] = "daily"]
    /\ exp_positions' = [exp_positions EXCEPT ![p] = get_positions(ledger)]
    /\ UNCHANGED <<settings, fn, now, ledger, log, origin, n_updates, script, opp,
                   force, positions, risk, new_trade, result, writes>>

\* The local risk_check of execute_opportunity: None when the call is forced.
RiskCheckOf(f, o, exposure, pos) ==
    IF f THEN None
    ELSE Some(check_limits(EngineRiskManager(settings), o, exposure, pos))

\* A gate that lets every risk check through.
Denied_Never(rc) == FALSE

\* A gate that stops only the max_position_size denials.
Denied_OnlyPositionSize(rc) ==
    ~IsNone(rc) /\ ~Val(rc).allowed /\ Val(rc).details.limit = "max_position_size"

\* if not risk_check.allowed
Denied(rc) == ~IsNone(rc) /\ ~Val(rc).allowed

\* The TradeResult execute_opportunity returns on a denial.
DeniedResult(rc) ==
    TradeResult(FALSE, None, Some(Val(rc).reason), settings.paper_trading)

\* A price test that lets a price of 0 through.
InvalidPrice_MissingOnly(o) == IsNone(EntryPrice(o))

\* if entry_price is None or entry_price <= 0
InvalidPrice(o) == IsNone(EntryPrice(o)) \/ Val(EntryPrice(o)) <= 0

InvalidPriceResult == TradeResult(FALSE, None, Some("Invalid entry price"), TRUE)

\* The history entry of a row written by execute_opportunity.
EngineOrigin(f, rc) ==
    [op |-> "execute_opportunity", force |-> f,
     allowed |-> ~IsNone(rc) /\ Val(rc).allowed]

\* get_exposure's daily read, then everything up to the next await: the risk
\* check, the denial, PaperTrader's price test and the row it builds.
CheckAndBuild(p) ==
    /\ pc[p] = "daily"
    /\ LET exposure == ExposureReport(exp_positions[p],
                                      today_trades(ledger, now, settings.utc_offset),
                                      settings)
           rc == RiskCheckOf(force[p], Val(opp[p]), exposure, positions[p])
       IN  /\ risk' = [risk EXCEPT ![p] = rc]
           /\ IF Denied(rc)
              THEN /\ result' = [result EXCEPT ![p] = Some(DeniedResult(rc))]
                   /\ pc' = [pc EXCEPT ![p] = "done"]
                   /\ UNCHANGED new_trade
              ELSE IF ~settings.paper_trading
              THEN /\ result' = [result EXCEPT ![p] = Some(LiveResult)]
                   /\ pc' = [pc EXCEPT ![p] = "done"]
                   /\ UNCHANGED new_trade
              ELSE IF InvalidPrice(Val(opp[p]))
              THEN /\ result' = [result EXCEPT ![p] = Some(InvalidPriceResult)]
                   /\ pc' = [pc EXCEPT ![p] = "done"]
                   /\ UNCHANGED new_trade
              ELSE /\ LedgerHasRoom
                   /\ new_trade' = [new_trade EXCEPT ![p] =
                        Some(PaperTradeRow(Val(opp[p]), now))]
                   /\ pc' = [pc EXCEPT ![p] = "commit"]
                   /\ UNCHANGED result
    /\ UNCHANGED <<settings, fn, now, ledger, log, origin, n_updates, script, opp,
                   force, positions, exp_positions, writes>>

\* db.add(db_trade); await db.commit()
Commit(p) ==
    /\ pc[p] = "commit"
    /\ LET row == [Val(new_trade[p]) EXCEPT !.id = Len(ledger) + 1]
       IN  /\ ledger' = Append(ledger, row)
           /\ new_trade' = [new_trade EXCEPT ![p] = Some(row)]
    /\ origin' = Append(origin, EngineOrigin(force[p], risk[p]))
    /\ writes' = [writes EXCEPT ![p] = @ + 1]
    /\ pc' = [pc EXCEPT ![p] = "log"]
    /\ UNCHANGED <<settings, fn, now, log, n_updates, script, opp, force, positions,
                   exp_positions, risk, result>>

\* await db.refresh(db_trade), the audit log line, and the return.
LogAndReturn(p) ==
    /\ pc[p] = "log"
    /\ LET row == ledger[Val(new_trade[p]).id]
       IN  /\ log' = Append(log, PaperLogEntry(Val(new_trade[p])))
           /\ result' = [result EXCEPT ![p] =
                Some(PaperResult(row))]
    /\ writes' = [writes EXCEPT ![p] = @ + 1]
    /\ pc' = [pc EXCEPT ![p] = "done"]
    /\ UNCHANGED <<settings, fn, now, ledger, origin, n_updates, script, opp, force,
                   positions, exp_positions, risk, new_trade>>

\* execute_opportunity served alone: its reads, its decision and its writes
\* with no other request in between; has_room says whether the ledger of the
\* model can take one more row.
ExecuteOpportunityServed(p, o, f, has_room) ==
    /\ pc[p] = "idle"
    /\ LET pos == get_positions(ledger)
           exposure == get_exposure(ledger, now, settings)
           rc == RiskCheckOf(f, o, exposure, pos)
           row == [PaperTradeRow(o, now) EXCEPT !.id = Len(ledger) + 1]
       IN  /\ opp' = [opp EXCEPT ![p] = Some(o)]
           /\ force' = [force EXCEPT ![p] = f]
           /\ positions' = [positions EXCEPT ![p] = pos]
           /\ exp_positions' = [exp_positions EXCEPT ![p] = pos]
           /\ risk' = [risk EXCEPT ![p] = rc]
           /\ pc' = [pc EXCEPT ![p] = "done"]
           /\ IF Denied(rc)
              THEN /\ result' = [result EXCEPT ![p] = Some(DeniedResult(rc))]
                   /\ UNCHANGED <<ledger, log, origin, new_trade, writes>>
              ELSE IF ~settings.paper_trading
              THEN /\ result' = [result EXCEPT ![p] = Some(LiveResult)]
                   /\ UNCHANGED <<ledger, log, origin, new_trade, writes>>
              ELSE IF InvalidPrice(o)
              THEN /\ result' = [result EXCEPT ![p] = Some(InvalidPriceResult)]
                   /\ UNCHANGED <<ledger, log, origin, new_trade, writes>>
              ELSE /\ has_room
                   /\ ledger' = Append(ledger, row)
                   /\ origin' = Append(origin, EngineOrigin(f, rc))
                   /\ log' = Append(log, PaperLogEntry(row))
                   /\ new_trade' = [new_trade EXCEPT ![p] = Some(row)]
                   /\ writes' = [writes EXCEPT ![p] = 2]
                   /\ result' = [result EXCEPT ![p] =
                        Some(PaperResult(row))]
    /\ UNCHANGED <<settings, fn, now, n_updates, script>>

ExecuteOpportunityAlone(p, o, f) == ExecuteOpportunityServed(p, o, f, LedgerHasRoom)

\* The caller has its TradeResult; the request slot is free again.
Return(p) ==
    /\ pc[p] = "done"
    /\ pc' = [pc EXCEPT ![p] = "idle"]
    /\ opp' = [opp EXCEPT ![p] = None]
    /\ force' = [force EXCEPT ![p] = FALSE]
    /\ positions' = [positions EXCEPT ![p] = <<>>]
    /\ exp_positions' = [exp_positions EXCEPT ![p] = <<>>]
    /\ risk' = [risk EXCEPT ![p] = None]
    /\ new_trade' = [new_trade EXCEPT ![p] = None]
    /\ result' = [result EXCEPT ![p] = None]
    /\ writes' = [writes EXCEPT ![p] = 0]
    /\ UNCHANGED <<settings, fn, now, ledger, log, origin, n_updates, script>>

\* ------------------------------------------------------------ trades API
\* The row create_trade builds.
CreateTradeRow(id, trade, clock) ==
    TradeDB(id, clock, trade.platform, trade.market_id, trade.side,
            trade.entry_price, trade.amount,
            IF trade.entry_price > 0
            THEN Shares(trade.amount, trade.entry_price) ELSE FracOfInt(0),
            trade.strategy)

\* POST /api/trades
create_trade(trade) ==
    /\ LedgerHasRoom
    /\ ledger' = Append(ledger, CreateTradeRow(Len(ledger) + 1, trade, now))
    /\ origin' = Append(origin,
            [op |-> "create_trade", force |-> FALSE, allowed |-> FALSE])
    /\ log' = Append(log, [action |-> "trade_created",
                           trade_id |-> Len(ledger) + 1])
    /\ UNCHANGED <<settings, fn, now, n_updates, script, locals>>

\* update.<field>: None when the request leaves the field unset.
Field(update, f) == IF f \in DOMAIN update THEN update[f] ELSE None

\* for key, value in update_data.items(): setattr(trade, key, value)
SetAttrs(trade, update_data) ==
    [f \in DOMAIN trade |->
        IF f \in DOMAIN update_data THEN update_data[f] ELSE trade[f]]

\* main._calculate_pnl
_calculate_pnl(trade, outcome) ==
    LET won == \/ (trade.side = "yes" /\ outcome = "yes")
               \/ (trade.side = "no" /\ outcome = "no")
    IN  IF won
        THEN IF FracTruthy(trade.shares)
             THEN FracSub(trade.shares, FracOfInt(trade.amount))
             ELSE FracOfInt(0)
        ELSE FracOfInt(-trade.amount)

\* roi = (pnl / amount) * 100 if amount > 0 else 0
Roi(pnl, amount) ==
    IF amount > 0
    THEN FracMul(FracDiv(pnl, FracOfInt(amount)), FracOfInt(100))
    ELSE FracOfInt(0)

\* The row update_trade commits for the row it read.
UpdatedRow(trade, update) ==
    LET t1 == SetAttrs(trade, update)
        outcome == Field(update, "resolution_outcome")
        closing == Field(update, "closing_price")
        t2 == IF ~IsNone(outcome) /\ Val(outcome) # "" /\ IsNone(t1.pnl)
              THEN LET pnl == _calculate_pnl(t1, Val(outcome))
                   IN  [t1 EXCEPT !.pnl = Some(pnl),
                                  !.roi = Some(Roi(pnl, t1.amount))]
              ELSE t1
        t3 == IF ~IsNone(closing) /\ Val(closing) # 0 /\ IsNone(t2.clv)
              THEN LET clv == FracSub(Price(t2.entry_price), Price(Val(closing)))
                   IN  [t2 EXCEPT !.clv = Some(clv),
                                  !.was_good_trade = Some(FracGt(clv, FracOfInt(0)))]
              ELSE t2
    IN  t3

\* PUT /api/trades/{trade_id}; an unknown id is a 404 and changes nothing.
update_trade(trade_id, update) ==
    /\ n_updates < MaxUpdates
    /\ trade_id \in DOMAIN ledger
    /\ ledger' = [ledger EXCEPT ![trade_id] = UpdatedRow(ledger[trade_id], update)]
    /\ log' = Append(log, [action |-> "trade_updated", trade_id |-> trade_id])
    /\ n_updates' = n_updates + 1
    /\ UNCHANGED <<settings, fn, now, origin, script, locals>>

\* ------------------------------------------------------------ check_resolutions
\* check_resolutions.calculate_pnl: (pnl, roi)
calculate_pnl(trade, outcome) ==
    LET won == \/ (trade.side = "yes" /\ outcome = Some("yes"))
               \/ (trade.side = "no" /\ outcome = Some("no"))
        pnl == IF won
               THEN FracSub(IF FracTruthy(trade.shares) THEN trade.shares
                            ELSE Shares(trade.amount, trade.entry_price),
                            FracOfInt(trade.amount))
               ELSE FracOfInt(-trade.amount)
    IN  <<pnl, Roi(pnl, trade.amount)>>

\* check_resolutions.calculate_clv: (clv, beat_clv)
calculate_clv(trade, closing_price) ==
    LET clv == IF trade.side = "yes"
               THEN FracSub(Price(closing_price), Price(trade.entry_price))
               ELSE FracSub(Price(trade.entry_price), Price(closing_price))
    IN  <<clv, FracGt(clv, FracOfInt(0))>>

\* generate_lessons(...)["insights"]; the hold-period insight is never added
\* (datetime.replace("Z", ...) raises, and the exception is swallowed).
Insights(trade, pnl, beat_clv) ==
    LET won == FracGt(pnl, FracOfInt(0))
        beat == ~IsNone(beat_clv) /\ Val(beat_clv)
    IN  (IF won
         THEN <<"profitable", IF beat THEN "beat closing line" ELSE "won, line not beaten">>
         ELSE <<"loss", IF beat THEN "beat closing line despite loss"
                        ELSE "line not beaten">>)
        \o (IF ~won /\ trade.strategy = "nothing_ever_happens"
            THEN <<"dramatic event happened">>
            ELSE IF ~won /\ trade.strategy = "yield_farming"
            THEN <<"impossible event occurred">> ELSE <<>>)

\* The updates dict main() writes for a trade whose market has resolved.
ResolutionUpdates(trade, resolution, clock) ==
    LET outcome == resolution.resolution_outcome
        closing_price == IF trade.side = "yes" THEN resolution.final_yes_price
                         ELSE resolution.final_no_price
        pr == calculate_pnl(trade, outcome)
        has_closing == ~IsNone(closing_price) /\ Val(closing_price) # 0
        clv == IF has_closing THEN Some(calculate_clv(trade, Val(closing_price))[1])
               ELSE None
        beat_clv == IF has_closing THEN Some(calculate_clv(trade, Val(closing_price))[2])
                    ELSE None
    IN  [status |-> IF FracGt(pr[1], FracOfInt(0)) THEN "resolved_win"
                    ELSE "resolved_loss",
         resolution_date |-> Some(clock),
         resolution_outcome |-> outcome,
         closing_price |-> closing_price,
         pnl |-> Some(pr[1]), roi |-> Some(pr[2]),
         clv |-> clv, was_good_trade |-> beat_clv,
         lessons |-> Some(Insights(trade, pr[1], beat_clv))]

\* main(): get_open_trades(); with no open trade the script returns at once.
ScriptStart(dry_run) ==
    /\ script_todo = <<>>
    /\ SelectSeq(ledger, LAMBDA t : t.status = "open") # <<>>
    /\ script_todo' = SelectSeq(ledger, LAMBDA t : t.status = "open")
    /\ script_dry' = dry_run
    /\ UNCHANGED <<settings, fn, now, ledger, log, origin, n_updates, locals>>

\* One turn of main()'s loop: the trade read at the start, the adapter's
\* answer for its market, and check_resolutions.update_trade on the row.
ScriptCheck(resolution) ==
    /\ script_todo # <<>>
    /\ LET trade == Head(script_todo)
       IN  IF \/ trade.platform # "polymarket"
              \/ IsNone(resolution)
              \/ ~Val(resolution).resolved
              \/ script_dry
           THEN UNCHANGED ledger
           ELSE ledger' = [ledger EXCEPT ![trade.id] =
                    SetAttrs(@, ResolutionUpdates(trade, Val(resolution), now))]
    /\ script_todo' = Tail(script_todo)
    /\ script_dry' = IF Len(script_todo) = 1 THEN FALSE ELSE script_dry
    /\ UNCHANGED <<settings, fn, now, log, origin, n_updates, locals>>

\* The clock advances by a day.
Tick ==
    /\ now < MaxTime * HoursPerDay
    /\ now' = now + HoursPerDay
    /\ UNCHANGED <<settings, fn, ledger, log, origin, n_updates, script, locals>>

\* The requests served one at a time: the engine, the trades API, the
\* resolution-check script and the clock.
Next ==
    \/ \E o \in Opportunities, f \in BOOLEAN : ExecuteOpportunityAlone(1, o, f)
    \/ Return(1)
    \/ \E trade \in TradeCreates : create_trade(trade)
    \/ \E trade_id \in 1..MaxTrades, update \in TradeUpdates :
            update_trade(trade_id, update)
    \/ \E dry_run \in BOOLEAN : ScriptStart(dry_run)
    \/ \E resolution \in Resolutions : ScriptCheck(resolution)
    \/ Tick

Spec == Init /\ [][Next]_vars

\* ------------------------------------------------------------ one call after another
\* The server runs in UTC or two hours east of it.
InitSequential ==
    /\ settings \in {[e EXCEPT !.utc_offset = z] : e \in SettingsEnv, z \in {0, 2}}
    /\ Quiet
    /\ args = None
    /\ ret = None

\* The hours that pass between two requests.
Waits == {11}

\* Time passes between two requests.
Advance ==
    /\ \E hours \in Waits :
          /\ now + hours <= MaxHours
          /\ now' = now + hours
    /\ UNCHANGED <<settings, fn, ledger, log, origin, n_updates, script, locals>>

\* Non-forced execute_opportunity calls served one at a time, the
\* resolution-check script, and the clock.
NextSequential ==
    \/ \E o \in Opportunities :
          ExecuteOpportunityServed(1, o, FALSE, Len(ledger) < MaxDayTrades)
    \/ Return(1)
    \/ ScriptStart(FALSE)
    \/ \E resolution \in Resolutions : ScriptCheck(resolution)
    \/ Advance

SpecSequential == InitSequential /\ [][NextSequential]_vars

\* Concurrent non-forced execute_opportunity calls, and nothing else.
NextRace ==
    \/ \E p \in Procs, o \in Opportunities : ExecuteOpportunity(p, o, FALSE)
    \/ \E p \in Procs : GetExposurePositions(p)
    \/ \E p \in Procs : CheckAndBuild(p)
    \/ \E p \in Procs : Commit(p)
    \/ \E p \in Procs : LogAndReturn(p)
    \/ \E p \in Procs : Return(p)

SpecRace == Init /\ [][NextRace]_vars

\* ------------------------------------------------------------ check_limits alone
\* make_exposure of the tests: an ExposureReport with the given totals.
make_exposure(total, daily_traded, s) ==
    [total_exposure |-> total,
     available_capital |-> Max(0, s.max_total_exposure - total),
     position_count |-> 0, by_platform |-> <<>>, by_strategy |-> <<>>,
     daily_traded |-> daily_traded,
     daily_limit |-> s.max_total_exposure * 2,
     daily_remaining |-> Max(0, s.max_total_exposure * 2 - daily_traded)]

\* An open position of $10 on the market, as the tests build it.
PositionOn(market) ==
    Position(TradeDB(1, 0, market.platform, market.market_id, "yes", 60, 10,
                     Shares(10, 60), "nothing_ever_happens"))

\* The risk managers, opportunities, exposures and positions check_limits is
\* applied to: the tests' RiskManager(50, 100, 120, 1) and the engine's.
CheckLimitsArgs ==
    [fn : {"check_limits"},
     rm : {RiskManager(50, 100, Some(120), 1), RiskManager(100, 100, None, 1)},
     opportunity : {Opportunity(Polymarket1, "nothing_ever_happens", "yes", a) :
                        a \in {20, 30, 40, 60}},
     current_exposure : {make_exposure(t, d, [max_total_exposure |-> 100]) :
                            t \in {0, 30, 70}, d \in {0, 10, 100}},
     existing_positions : {<<>>, <<PositionOn(Polymarket1)>>,
                           <<PositionOn(Kalshi1)>>}]

InitCheckLimits ==
    /\ Started
    /\ args \in {Some(a) : a \in CheckLimitsArgs}
    /\ ret = None

\* risk_manager.check_limits(opportunity, exposure, positions, db)
ApplyCheckLimits ==
    /\ ~IsNone(args)
    /\ Val(args).fn = "check_limits"
    /\ IsNone(ret)
    /\ ret' = Some(check_limits(Val(args).rm, Val(args).opportunity,
                                Val(args).current_exposure,
                                Val(args).existing_positions))
    /\ UNCHANGED <<settings, now, ledger, log, origin, n_updates, script,
                   locals, args>>

NextCheckLimits == ApplyCheckLimits

SpecCheckLimits == InitCheckLimits /\ [][NextCheckLimits]_vars

\* ------------------------------------------------------------ get_exposure alone
\* The server's time zone, as hours ahead of UTC.
UtcOffsets == {0, 2, -5}

\* Trades of several platforms, strategies, states and creation times (hours
\* 25, 46 and 49 are 01:00 and 22:00 of day 1 and 01:00 of day 2, UTC).
ExposureRows ==
    << TradeDB(1, 46, "polymarket", "1", "yes", 60, 100, Shares(100, 60),
               "nothing_ever_happens"),
       TradeDB(2, 49, "kalshi", "1", "no", 40, 200, Shares(200, 40),
               "yield_farming"),
       [TradeDB(3, 25, "polymarket", "2", "yes", 60, 50, Shares(50, 60),
                "yield_farming") EXCEPT !.status = "resolved_win"],
       TradeDB(4, 25, "polymarket", "3", "no", 40, 30, Shares(30, 40),
               "nothing_ever_happens"),
       [TradeDB(5, 49, "kalshi", "2", "yes", 60, 70, Shares(70, 60),
                "nothing_ever_happens") EXCEPT !.status = "cancelled"] >>

\* The ledgers get_exposure is applied to: every selection of the rows.
ExposureLedgers ==
    {SelectSeq(ExposureRows, LAMBDA t : t.id \in S) :
        S \in SUBSET DOMAIN ExposureRows}

\* The ledgers, the times (23:00 of day 1 and 02:00 of day 2, UTC) and the
\* environments get_exposure is applied to.
GetExposureArgs ==
    [fn : {"get_exposure"},
     db : ExposureLedgers,
     clock : {47, 50},
     settings : {[e EXCEPT !.utc_offset = z] : e \in SettingsEnv, z \in UtcOffsets}]

InitGetExposure ==
    /\ Started
    /\ args \in {Some(a) : a \in GetExposureArgs}
    /\ ret = None

\* position_manager.get_exposure(db)
ApplyGetExposure ==
    /\ ~IsNone(args)
    /\ Val(args).fn = "get_exposure"
    /\ IsNone(ret)
    /\ ret' = Some(get_exposure(Val(args).db, Val(args).clock, Val(args).settings))
    /\ UNCHANGED <<settings, now, ledger, log, origin, n_updates, script,
                   locals, args>>

NextGetExposure == ApplyGetExposure

SpecGetExposure == InitGetExposure /\ [][NextGetExposure]_vars

\* ------------------------------------------------------------ the executors
\* Markets the adapter could not price, or priced at the ends of [0, 1].
MarketUnpriced ==
    [platform |-> "polymarket", market_id |-> "2",
     yes_price |-> None, no_price |-> Some(0)]

MarketSettled ==
    [platform |-> "polymarket", market_id |-> "3",
     yes_price |-> Some(100), no_price |-> Some(0)]

\* MarketOpportunity validates neither recommended_amount nor the prices of
\* its market: besides the strategies' opportunities the engine can be
\* handed these.
ExecOpportunities ==
    Opportunities \cup
    { Opportunity(Polymarket1, "yield_farming", "no", 0),
      Opportunity(Polymarket1, "nothing_ever_happens", "yes", -30),
      Opportunity(MarketUnpriced, "yield_farming", "yes", 30),
      Opportunity(MarketUnpriced, "yield_farming", "no", 30),
      Opportunity(MarketSettled, "nothing_ever_happens", "yes", 30) }

\* The environments with PAPER_TRADING set either way.
SettingsEnvExec ==
    {[s EXCEPT !.paper_trading = b] : s \in SettingsEnv, b \in BOOLEAN}

InitExec ==
    /\ settings \in SettingsEnvExec
    /\ Quiet
    /\ args = None
    /\ ret = None

\* The engine served one call at a time, next to the trades API.
NextExec ==
    \/ \E o \in ExecOpportunities, f \in BOOLEAN : ExecuteOpportunityAlone(1, o, f)
    \/ Return(1)
    \/ \E trade \in TradeCreates : create_trade(trade)

SpecExec == InitExec /\ [][NextExec]_vars

\* ------------------------------------------------------------ the dry run
\* A preview that checks the opportunity against no positions at all.
check_risk_limits_NoPositions(db, clock, s, o) ==
    check_limits(EngineRiskManager(s), o, get_exposure(db, clock, s), <<>>)

\* TradingEngine.check_risk_limits: the engine's reads and check_limits.
check_risk_limits(db, clock, s, o) ==
    check_limits(EngineRiskManager(s), o, get_exposure(db, clock, s),
                 get_positions(db))

\* POST /api/trading/check-risk, served while no execute call is running.
CheckRiskLimits(o) ==
    /\ pc[1] = "idle"
    /\ args' = Some([fn |-> "check_risk_limits", opportunity |-> o,
                      db |-> ledger, clock |-> now])
    /\ ret' = Some(check_risk_limits(ledger, now, settings, o))
    /\ UNCHANGED <<settings, now, ledger, log, origin, n_updates, script,
                   locals>>

\* The engine with its dry run, next to the trades API.
NextPreview ==
    \/ \E o \in Opportunities : CheckRiskLimits(o)
    \/ \E o \in Opportunities, f \in BOOLEAN : ExecuteOpportunityAlone(1, o, f)
    \/ Return(1)
    \/ \E trade \in TradeCreates : create_trade(trade)

SpecPreview == Init /\ [][NextPreview]_vars

\* ------------------------------------------------------------ the dry run over a day
\* The engine, forced calls included, its dry run and the resolution script
\* over one day.
NextAgreement ==
    \/ \E o \in Opportunities : CheckRiskLimits(o)
    \/ \E o \in Opportunities, f \in BOOLEAN : ExecuteOpportunityAlone(1, o, f)
    \/ Return(1)
    \/ ScriptStart(FALSE)
    \/ \E resolution \in Resolutions : ScriptCheck(resolution)

SpecAgreement == Init /\ [][NextAgreement]_vars

\* ------------------------------------------------------------ ResolutionAnalyzer
\* A CLV that leaves the NO side unflipped.
_calculate_clv_YesOnly(trade) ==
    IF IsNone(trade.closing_price) THEN None
    ELSE Some(Frac(RoundHalfEven(10000 * (Val(trade.closing_price) - trade.entry_price),
                                 trade.entry_price), 100))

\* ResolutionAnalyzer._calculate_clv: a percentage rounded to 2 decimals, or
\* None without a closing price.
_calculate_clv(trade) ==
    IF IsNone(trade.closing_price) THEN None
    ELSE LET closing == Val(trade.closing_price)
             our_implied_yes == 100 - trade.entry_price
         IN  IF trade.side = "yes"
             THEN Some(Frac(RoundHalfEven(10000 * (closing - trade.entry_price),
                                          trade.entry_price), 100))
             ELSE Some(Frac(RoundHalfEven(10000 * (our_implied_yes - closing),
                                          100 - trade.entry_price), 100))

\* beat_closing_line = clv > 0 if clv is not None else None
BeatClosingLine(clv) ==
    IF IsNone(clv) THEN None ELSE Some(FracGt(Val(clv), FracOfInt(0)))

\* clv is not None and clv < k / clv > k, for a whole number of percent k.
ClvBelow(clv, k) == ~IsNone(clv) /\ FracGt(FracOfInt(k), Val(clv))
ClvAbove(clv, k) == ~IsNone(clv) /\ FracGt(Val(clv), FracOfInt(k))

\* One line of a lesson list: the text with its format field left in place,
\* and the value formatted into it, if any.
Line(text, value) == [text |-> text, value |-> value]

\* ResolutionAnalyzer._calculate_pnl recomputes the shares from the amount.
ResolutionAnalyzer_calculate_pnl(trade, won) ==
    IF won
    THEN FracMul(FracDiv(FracOfInt(trade.amount), Price(trade.entry_price)),
                 FracSub(FracOfInt(1), Price(trade.entry_price)))
    ELSE FracOfInt(0 - trade.amount)

_assess_entry_quality(trade, clv) ==
    IF IsNone(clv) THEN TRUE ELSE FracGt(Val(clv), FracOfInt(0))

_assess_sizing_quality(trade) == ~(trade.amount > 50) /\ ~(trade.amount < 1)

_identify_positives(trade, won, clv) ==
    LET positives ==
            (IF ClvAbove(clv, 0)
             THEN <<Line("Positive CLV of {clv:.1f}% - beat the closing line", clv)>>
                  \o (IF ClvAbove(clv, 10)
                      THEN <<Line("Exceptional edge identified (>10% CLV)", None)>>
                      ELSE <<>>)
             ELSE <<>>)
         \o (IF won
             THEN <<Line("Trade resolved in our favor", None)>>
                  \o (IF trade.entry_price < 30
                      THEN <<Line("Correctly identified underpriced longshot", None)>>
                      ELSE IF trade.entry_price > 70
                      THEN <<Line("Correctly faded overpriced favorite", None)>>
                      ELSE <<>>)
             ELSE <<>>)
         \o (IF trade.strategy = "contrarian" /\ ClvAbove(clv, 0)
             THEN <<Line("Contrarian view validated - market was wrong", None)>>
             ELSE <<>>)
         \o (IF trade.strategy = "momentum" /\ won
             THEN <<Line("Momentum strategy captured directional move", None)>>
             ELSE <<>>)
         \o (IF ~IsNone(trade.closing_price)
                 /\ Abs(Val(trade.closing_price) - trade.entry_price) > 10
             THEN <<Line("Good timing - price moved {price_move:.0%} after entry",
                         Some(Price(Abs(Val(trade.closing_price) - trade.entry_price))))>>
             ELSE <<>>)
    IN  IF positives = <<>>
        THEN <<Line("No clear positives identified - review needed", None)>>
        ELSE positives

\* _identify_negatives returns the list as the rules left it.
_identify_negatives(trade, won, clv) ==
       (IF ClvBelow(clv, 0)
        THEN <<Line("Negative CLV of {clv:.1f}% - entered at worse price than close", clv)>>
             \o (IF ClvBelow(clv, -10)
                 THEN <<Line("Severely mispriced entry (>10% worse than close)", None)>>
                 ELSE <<>>)
        ELSE <<>>)
    \o (IF ~won
        THEN <<Line("Trade resolved against us", None)>>
             \o (IF trade.entry_price > 70
                 THEN <<Line("Lost on high-probability position - consider hedging", None)>>
                 ELSE IF trade.entry_price < 30
                 THEN <<Line("Longshot didn't hit - expected but painful", None)>>
                 ELSE <<>>)
        ELSE <<>>)
    \o (IF ClvBelow(clv, 0) /\ won
        THEN <<Line("Won despite negative CLV - got lucky, don't repeat this entry", None)>>
        ELSE <<>>)
    \o (IF trade.amount > 50
        THEN <<Line("Position size ${trade.amount:.0f} may be too large",
                    Some(FracOfInt(trade.amount)))>>
        ELSE <<>>)
    \o (IF trade.market_category \in {Some("politics"), Some("crypto")}
           /\ ClvBelow(clv, -5)
        THEN <<Line("Underperformed in {trade.market_category} - high volatility category",
                    trade.market_category)>>
        ELSE <<>>)

_suggest_trade_improvements(trade, won, clv, negatives) ==
    LET suggestions ==
            (IF ClvBelow(clv, -5)
             THEN <<Line("Wait for better entry price - consider limit orders", None),
                    Line("Check if news/info was already priced in before entering", None)>>
             ELSE <<>>)
         \o (IF ClvBelow(clv, -10)
             THEN <<Line("Review information sources - market knew something we didn't", None)>>
             ELSE <<>>)
         \o (IF trade.entry_price > 85
             THEN <<Line("High entry prices leave little room for profit - require higher edge", None)>>
             ELSE <<>>)
         \o (IF trade.entry_price < 15
             THEN <<Line("Low entry prices are often longshots - ensure sufficient edge", None)>>
             ELSE <<>>)
         \o (IF trade.strategy = "momentum" /\ ClvBelow(clv, 0)
             THEN <<Line("Momentum entry may have been too late - price already moved", None)>>
             ELSE <<>>)
         \o (IF trade.strategy = "contrarian" /\ ~won /\ ClvBelow(clv, 0)
             THEN <<Line("Contrarian view may have been wrong - review thesis", None),
                    Line("Consider: was this truly contrarian or just wrong?", None)>>
             ELSE <<>>)
         \o (IF trade.amount > 30 /\ ~won
             THEN <<Line("Consider smaller position sizes for uncertain bets", None)>>
             ELSE <<>>)
         \o (IF ~IsNone(trade.market_end_date)
                 /\ (Val(trade.market_end_date) - trade.created_at) \div HoursPerDay > 30
                 /\ ClvBelow(clv, 0)
             THEN <<Line("Long-dated markets: consider scaling in over time", None)>>
             ELSE <<>>)
    IN  IF suggestions = <<>>
        THEN <<Line("Continue current approach - this was a reasonable trade", None)>>
        ELSE suggestions

\* ResolutionAnalyzer.analyze_resolved_trade: the TradeAnalysis, or the
\* ValueError for a trade that is not resolved.
analyze_resolved_trade(trade) ==
    IF trade.status \notin {"resolved_win", "resolved_loss"}
    THEN Raised("ValueError")
    ELSE LET won == trade.status = "resolved_win"
             pnl == IF ~IsNone(trade.pnl) /\ FracTruthy(Val(trade.pnl))
                    THEN Val(trade.pnl)
                    ELSE ResolutionAnalyzer_calculate_pnl(trade, won)
             roi == IF trade.amount > 0
                    THEN FracMul(FracDiv(pnl, FracOfInt(trade.amount)), FracOfInt(100))
                    ELSE FracOfInt(0)
             clv == _calculate_clv(trade)
             what_went_wrong == _identify_negatives(trade, won, clv)
         IN  [trade_id |-> trade.id, strategy |-> trade.strategy, won |-> won,
              pnl |-> pnl, roi |-> roi,
              entry_price |-> trade.entry_price,
              closing_price |-> trade.closing_price,
              clv |-> clv, beat_closing_line |-> BeatClosingLine(clv),
              was_good_entry |-> _assess_entry_quality(trade, clv),
              was_good_sizing |-> _assess_sizing_quality(trade),
              what_went_right |-> _identify_positives(trade, won, clv),
              what_went_wrong |-> what_went_wrong,
              suggested_improvements |->
                  _suggest_trade_improvements(trade, won, clv, what_went_wrong)]

\* ------------------------------------------------------------ POST /api/analyze/trade
\* main._generate_trade_analysis, on the stored clv and was_good_trade.
_generate_trade_analysis(trade) ==
    LET won == trade.status = "resolved_win"
        beat == ~IsNone(trade.was_good_trade) /\ Val(trade.was_good_trade)
    IN  [what_went_right |->
               (IF won
                THEN <<Line("Trade was profitable", None)>>
                     \o (IF beat
                         THEN <<Line("Beat the closing line (good entry timing)", None)>>
                         ELSE <<>>)
                ELSE <<>>)
            \o (IF ~ClvBelow(trade.clv, 0)
                   /\ ~IsNone(trade.clv) /\ FracGt(Val(trade.clv), Frac(5, 100))
                THEN <<Line("Excellent entry timing (CLV: {trade.clv:.3f})", trade.clv)>>
                ELSE <<>>),
         what_went_wrong |->
               (IF won THEN <<>> ELSE <<Line("Trade resulted in loss", None)>>)
            \o (IF ClvBelow(trade.clv, 0)
                THEN <<Line("Did not beat closing line (CLV: {trade.clv:.3f})", trade.clv)>>
                ELSE <<>>),
         suggestions |->
               IF ClvBelow(trade.clv, 0)
               THEN <<Line("Consider waiting for better entry prices", None)>>
               ELSE <<>>]

\* main.analyze_trade: 404 for no such trade, 400 for an open one, and the
\* analysis dict for every other status.
analyze_trade(db, trade_id) ==
    LET found == SelectSeq(db, LAMBDA t : t.id = trade_id)
    IN  IF found = <<>> THEN Raised("HTTPException 404")
        ELSE IF found[1].status = "open" THEN Raised("HTTPException 400")
        ELSE LET trade == found[1]
             IN  [trade_id |-> trade_id, strategy |-> trade.strategy,
                  won |-> trade.status = "resolved_win",
                  pnl |-> trade.pnl, roi |-> trade.roi,
                  entry_price |-> trade.entry_price,
                  closing_price |-> trade.closing_price,
                  clv |-> trade.clv,
                  beat_closing_line |-> trade.was_good_trade,
                  analysis |-> _generate_trade_analysis(trade)]

\* ------------------------------------------------------------ the analyses alone
\* A Trade as the analyzer reads it: the row with the two market fields the
\* lesson rules look at.
AnalyzedTrade(row, market_category, market_end_date) ==
    row @@ [market_category |-> market_category,
            market_end_date |-> market_end_date]

\* The ledger rows handed to the analyses: every status, with a closing price
\* or without.
AnalysisRows ==
    {[TradeDB(1, 0, "polymarket", "1", side, entry_price, amount,
              Shares(amount, entry_price), strategy)
        EXCEPT !.status = status, !.closing_price = closing_price] :
        side \in {"yes", "no"}, entry_price \in {10, 40, 90},
        amount \in {30, 60},
        strategy \in {"yield_farming", "momentum", "contrarian"},
        status \in TradeStatusValues,
        closing_price \in {None, Some(20), Some(60)}}

AnalyzeResolvedTradeArgs ==
    [fn : {"analyze_resolved_trade"},
     trade : {AnalyzedTrade(row, market_category, market_end_date) :
                row \in {r \in AnalysisRows : r.side = "yes" \/ r.amount = 30},
                market_category \in {None, Some("politics")},
                market_end_date \in {None, Some(40 * HoursPerDay)}}]

\* The rows the endpoint finds: with the clv and was_good_trade that
\* update_trade stored along with the closing price.
AnalyzeTradeArgs ==
    [fn : {"analyze_trade"},
     db : {<<UpdatedRow([row EXCEPT !.closing_price = None],
                        [closing_price |-> row.closing_price])>> :
             row \in {r \in AnalysisRows :
                        r.strategy = "yield_farming" /\ r.amount = 30}},
     trade_id : {1, 2}]

InitAnalysis ==
    /\ Started
    /\ args \in {Some(a) : a \in AnalyzeResolvedTradeArgs \cup AnalyzeTradeArgs}
    /\ ret = None

ApplyAnalyzeResolvedTrade ==
    /\ ~IsNone(args) /\ Val(args).fn = "analyze_resolved_trade"
    /\ IsNone(ret)
    /\ ret' = Some(analyze_resolved_trade(Val(args).trade))
    /\ UNCHANGED <<settings, now, ledger, log, origin, n_updates, script,
                   locals, args>>

ApplyAnalyzeTrade ==
    /\ ~IsNone(args) /\ Val(args).fn = "analyze_trade"
    /\ IsNone(ret)
    /\ ret' = Some(analyze_trade(Val(args).db, Val(args).trade_id))
    /\ UNCHANGED <<settings, now, ledger, log, origin, n_updates, script,
                   locals, args>>

NextAnalysis == ApplyAnalyzeResolvedTrade \/ ApplyAnalyzeTrade

SpecAnalysis == InitAnalysis /\ [][NextAnalysis]_vars

\* ------------------------------------------------------------ the three CLVs
\* An open trade and the closing price its market ends with.
ClvArgs ==
    [fn : {"clv"},
     trade : {TradeDB(1, 0, "polymarket", "1", side, entry_price, 30,
                      Shares(30, entry_price), "yield_farming") :
                side \in {"yes", "no"}, entry_price \in {15, 40, 60, 85}},
     closing_price : {None, Some(0), Some(50), Some(60), Some(100)}]

InitClv ==
    /\ Started
    /\ args \in {Some(a) : a \in ClvArgs}
    /\ ret = None

\* The CLVs computed so far, by path: <<>> until the path has run.
ClvSoFar ==
    IF IsNone(ret) THEN [api |-> <<>>, script |-> <<>>, analyzer |-> <<>>]
    ELSE Val(ret)

\* PUT /api/trades/{id} with the closing price: the clv and was_good_trade
\* update_trade stores.
ApplyUpdateTradeClv ==
    /\ ~IsNone(args) /\ Val(args).fn = "clv"
    /\ ClvSoFar.api = <<>>
    /\ LET row == UpdatedRow(Val(args).trade,
                              [closing_price |-> Val(args).closing_price])
       IN  ret' = Some([ClvSoFar EXCEPT !.api =
                    <<[clv |-> row.clv, beat |-> row.was_good_trade]>>])
    /\ UNCHANGED <<settings, now, ledger, log, origin, n_updates, script,
                   locals, args>>

\* check_resolutions finds the market resolved at the closing price: the clv
\* and was_good_trade it stores.
ApplyScriptClv ==
    /\ ~IsNone(args) /\ Val(args).fn = "clv"
    /\ ClvSoFar.script = <<>>
    /\ LET updates == ResolutionUpdates(Val(args).trade,
                          [resolved |-> TRUE, resolution_outcome |-> Some("yes"),
                           final_yes_price |-> Val(args).closing_price,
                           final_no_price |-> Val(args).closing_price], now)
       IN  ret' = Some([ClvSoFar EXCEPT !.script =
                    <<[clv |-> updates.clv, beat |-> updates.was_good_trade]>>])
    /\ UNCHANGED <<settings, now, ledger, log, origin, n_updates, script,
                   locals, args>>

\* ResolutionAnalyzer on the trade with its closing price: clv and
\* beat_closing_line of the TradeAnalysis.
ApplyAnalyzerClv ==
    /\ ~IsNone(args) /\ Val(args).fn = "clv"
    /\ ClvSoFar.analyzer = <<>>
    /\ LET trade == [Val(args).trade EXCEPT
                        !.closing_price = Val(args).closing_price]
           clv == _calculate_clv(trade)
       IN  ret' = Some([ClvSoFar EXCEPT !.analyzer =
                    <<[clv |-> clv, beat |-> BeatClosingLine(clv)]>>])
    /\ UNCHANGED <<settings, now, ledger, log, origin, n_updates, script,
                   locals, args>>

NextClv == ApplyUpdateTradeClv \/ ApplyScriptClv \/ ApplyAnalyzerClv

SpecClv == InitClv /\ [][NextClv]_vars

\* ------------------------------------------------------------ StrategyEvaluator
\* key=lambda t: t.resolution_date or t.created_at; a resolution date is
\* never the zero of its type, so only None falls through.
DrawdownKey(t) ==
    IF IsNone(t.resolution_date) THEN t.created_at ELSE Val(t.resolution_date)

\* The trades left in the order of the list.
SortedByKey_AsGiven(trades) == trades

\* sorted(trades, key=...): stable, so a trade goes after those of the same key
\* that precede it in the list.
RECURSIVE SortedByKey(_)
SortedByKey(trades) ==
    IF trades = <<>> THEN <<>>
    ELSE LET n == Len(trades)
             last == trades[n]
             front == SortedByKey(SubSeq(trades, 1, n - 1))
         IN  SelectSeq(front, LAMBDA t : DrawdownKey(t) <= DrawdownKey(last))
             \o <<last>>
             \o SelectSeq(front, LAMBDA t : DrawdownKey(t) > DrawdownKey(last))

\* trade.pnl or 0
PnlOrZero(t) == IF IsNone(t.pnl) THEN FracOfInt(0) ELSE Val(t.pnl)

\* A drawdown that is the depth of the cumulative PnL below zero: the peak
\* is never moved.
RECURSIVE DrawdownLoop_PeakAtZero(_, _)
DrawdownLoop_PeakAtZero(sorted_trades, i) ==
    IF i = 0
    THEN [cumulative_pnl |-> FracOfInt(0), peak |-> FracOfInt(0),
          max_dd |-> FracOfInt(0)]
    ELSE LET before == DrawdownLoop_PeakAtZero(sorted_trades, i - 1)
             cumulative_pnl == FracAdd(before.cumulative_pnl,
                                       PnlOrZero(sorted_trades[i]))
             drawdown == FracSub(before.peak, cumulative_pnl)
         IN  [cumulative_pnl |-> cumulative_pnl, peak |-> before.peak,
              max_dd |-> IF FracGt(drawdown, before.max_dd)
                         THEN drawdown ELSE before.max_dd]

\* The loop of _calculate_max_drawdown after i trades.
RECURSIVE DrawdownLoop(_, _)
DrawdownLoop(sorted_trades, i) ==
    IF i = 0
    THEN [cumulative_pnl |-> FracOfInt(0), peak |-> FracOfInt(0),
          max_dd |-> FracOfInt(0)]
    ELSE LET before == DrawdownLoop(sorted_trades, i - 1)
             cumulative_pnl == FracAdd(before.cumulative_pnl,
                                       PnlOrZero(sorted_trades[i]))
             peak == IF FracGt(cumulative_pnl, before.peak)
                     THEN cumulative_pnl ELSE before.peak
             drawdown == FracSub(peak, cumulative_pnl)
         IN  [cumulative_pnl |-> cumulative_pnl, peak |-> peak,
              max_dd |-> IF FracGt(drawdown, before.max_dd)
                         THEN drawdown ELSE before.max_dd]

\* StrategyEvaluator._calculate_max_drawdown
_calculate_max_drawdown(trades) ==
    IF trades = <<>> THEN FracOfInt(0)
    ELSE DrawdownLoop(SortedByKey(trades), Len(trades)).max_dd

\* ------------------------------------------------------------ the drawdown alone
\* Four trades resolved one day after another with PnL +10, +5, -20, +3, and
\* an unresolved one created between the second and the third.
DrawdownRows ==
    LET Resolved(id, day, pnl) ==
            [TradeDB(id, 0, "polymarket", "1", "yes", 50, 20, Shares(20, 50),
                     "yield_farming")
               EXCEPT !.status = IF pnl > 0 THEN "resolved_win" ELSE "resolved_loss",
                      !.resolution_date = Some(day * HoursPerDay),
                      !.pnl = Some(FracOfInt(pnl))]
    IN  <<Resolved(1, 1, 10), Resolved(2, 2, 5), Resolved(3, 3, -20),
          Resolved(4, 4, 3),
          TradeDB(5, 60, "polymarket", "1", "yes", 50, 20, Shares(20, 50),
                  "yield_farming")>>

\* The trades in every order a list can hold them, and every part of them.
DrawdownLists ==
    {order \in UNION {[1..n -> 1..Len(DrawdownRows)] : n \in 0..Len(DrawdownRows)} :
        \A i, j \in DOMAIN order : i # j => order[i] # order[j]}

MaxDrawdownArgs ==
    [fn : {"_calculate_max_drawdown"},
     trades : {[i \in DOMAIN order |-> DrawdownRows[order[i]]] :
                 order \in DrawdownLists}]

InitDrawdown ==
    /\ Started
    /\ args \in {Some(a) : a \in MaxDrawdownArgs}
    /\ ret = None

ApplyMaxDrawdown ==
    /\ ~IsNone(args) /\ Val(args).fn = "_calculate_max_drawdown"
    /\ IsNone(ret)
    /\ ret' = Some(_calculate_max_drawdown(Val(args).trades))
    /\ UNCHANGED <<settings, now, ledger, log, origin, n_updates, script,
                   locals, args>>

NextDrawdown == ApplyMaxDrawdown

SpecDrawdown == InitDrawdown /\ [][NextDrawdown]_vars

\* ------------------------------------------------------------ the drawdown of simultaneous trades
\* Trades with PnL +10 and -5 resolved on days 1 and 2, two trades with PnL +3
\* and -4 resolved at the same time on day 3, and an unresolved trade created
\* at that time.
TiedDrawdownRows ==
    LET Resolved(id, day, pnl) ==
            [TradeDB(id, 0, "polymarket", "1", "yes", 50, 20, Shares(20, 50),
                     "yield_farming")
               EXCEPT !.status = IF pnl > 0 THEN "resolved_win" ELSE "resolved_loss",
                      !.resolution_date = Some(day * HoursPerDay),
                      !.pnl = Some(FracOfInt(pnl))]
    IN  <<Resolved(1, 1, 10), Resolved(2, 2, -5), Resolved(3, 3, 3),
          Resolved(4, 3, -4),
          TradeDB(5, 3 * HoursPerDay, "polymarket", "1", "yes", 50, 20,
                  Shares(20, 50), "yield_farming")>>

\* The trades in every order a list can hold them, and every part of them.
TiedDrawdownLists ==
    {order \in UNION {[1..n -> 1..Len(TiedDrawdownRows)] : n \in 0..Len(TiedDrawdownRows)} :
        \A i, j \in DOMAIN order : i # j => order[i] # order[j]}

TiedDrawdownArgs ==
    [fn : {"_calculate_max_drawdown"},
     trades : {[i \in DOMAIN order |-> TiedDrawdownRows[order[i]]] :
                 order \in TiedDrawdownLists}]

InitDrawdownTies ==
    /\ Started
    /\ args \in {Some(a) : a \in TiedDrawdownArgs}
    /\ ret = None

SpecDrawdownTies == InitDrawdownTies /\ [][NextDrawdown]_vars

\* ------------------------------------------------------------ evaluate_strategy
\* [t for t in trades if t.status in (RESOLVED_WIN, RESOLVED_LOSS)]
ResolvedTrades(trades) ==
    SelectSeq(trades, LAMBDA t : t.status \in {"resolved_win", "resolved_loss"})

\* datetime(2020, 1, 1) on the model's clock: before every trade.
AllTimeStart == -1000000

RECURSIVE SumFracs(_)
SumFracs(s) == IF s = <<>> THEN FracOfInt(0) ELSE FracAdd(Head(s), SumFracs(Tail(s)))

\* statistics.mean of a non-empty list.
Mean(s) == FracDiv(SumFracs(s), FracOfInt(Len(s)))

\* [t.clv for t in trades if t.clv is not None]
ClvValues(trades) ==
    LET with_clv == SelectSeq(trades, LAMBDA t : ~IsNone(t.clv))
    IN  [i \in 1..Len(with_clv) |-> Val(with_clv[i].clv)]

\* sum(t.pnl or 0 for t in trades)
SumPnl(trades) == SumFracs([i \in 1..Len(trades) |-> PnlOrZero(trades[i])])

\* (total_pnl / total_wagered * 100) if total_wagered > 0 else 0
RoiOf(total_pnl, total_wagered) ==
    IF total_wagered > 0
    THEN FracMul(FracDiv(total_pnl, FracOfInt(total_wagered)), FracOfInt(100))
    ELSE FracOfInt(0)

\* len(a) / len(b) if b else 0
RateOf(a, b) == IF b # <<>> THEN Frac(Len(a), Len(b)) ELSE FracOfInt(0)

_get_period_start(period, end_date) ==
    IF period = "daily" THEN end_date - HoursPerDay
    ELSE IF period = "weekly" THEN end_date - 7 * HoursPerDay
    ELSE IF period = "monthly" THEN end_date - 30 * HoursPerDay
    ELSE AllTimeStart

\* getattr(trade, field, None) or "unknown"
GroupOf(trade, field) ==
    IF field = "platform" THEN trade.platform
    ELSE IF IsNone(trade.market_category) THEN "unknown"
    ELSE Val(trade.market_category)

\* The keys of a dict filled in a loop over names: each name once, in the
\* order of its first appearance.
RECURSIVE DistinctInOrder(_)
DistinctInOrder(names) ==
    IF names = <<>> THEN <<>>
    ELSE LET n == Len(names)
             before == DistinctInOrder(SubSeq(names, 1, n - 1))
         IN  IF \E i \in 1..Len(before) : before[i] = names[n] THEN before
             ELSE Append(before, names[n])

GroupNames(trades, field) ==
    DistinctInOrder([i \in 1..Len(trades) |-> GroupOf(trades[i], field)])

\* StrategyEvaluator._group_by_field: the items of the result dict, in its
\* order, each the group's name with its metrics.
_group_by_field(trades, field) ==
    LET names == GroupNames(trades, field)
    IN  [k \in 1..Len(names) |->
            LET group_trades == SelectSeq(trades, LAMBDA t : GroupOf(t, field) = names[k])
                wins == SelectSeq(group_trades, LAMBDA t : t.status = "resolved_win")
                total_pnl == SumPnl(group_trades)
                total_wagered == SumAmount(group_trades)
                clv_values == ClvValues(group_trades)
            IN  [name |-> names[k],
                 trades |-> Len(group_trades),
                 wins |-> Len(wins),
                 win_rate |-> RateOf(wins, group_trades),
                 pnl |-> total_pnl,
                 wagered |-> total_wagered,
                 roi |-> RoiOf(total_pnl, total_wagered),
                 avg_clv |-> IF clv_values # <<>> THEN Mean(clv_values)
                             ELSE FracOfInt(0)]]

\* StrategyPerformance with the defaults of the model class; sharpe_ratio, a
\* quotient by a square root that no property here reads, is not part of the
\* record.
StrategyPerformanceDefault(strategy, period, start_date, end_date) ==
    [strategy |-> strategy, period |-> period,
     start_date |-> start_date, end_date |-> end_date,
     total_trades |-> 0, open_trades |-> 0, resolved_trades |-> 0,
     wins |-> 0, losses |-> 0, win_rate |-> FracOfInt(0),
     total_wagered |-> 0, total_pnl |-> FracOfInt(0), roi |-> FracOfInt(0),
     avg_clv |-> FracOfInt(0), clv_positive_count |-> 0,
     clv_positive_rate |-> FracOfInt(0), max_drawdown |-> FracOfInt(0),
     by_category |-> <<>>, by_platform |-> <<>>]

\* StrategyEvaluator(trades).evaluate_strategy(strategy_name, period,
\* start_date, end_date), called when the clock (utcnow) is clock.
evaluate_strategy(trades, strategy_name, period, start_date, end_date, clock) ==
    LET end == IF IsNone(end_date) THEN clock ELSE Val(end_date)
        start == IF IsNone(start_date) THEN _get_period_start(period, end)
                 ELSE Val(start_date)
        strategy_trades == SelectSeq(trades, LAMBDA t :
                               /\ t.strategy = strategy_name
                               /\ t.created_at >= start
                               /\ t.created_at <= end)
        resolved == ResolvedTrades(strategy_trades)
        wins == SelectSeq(resolved, LAMBDA t : t.status = "resolved_win")
        losses == SelectSeq(resolved, LAMBDA t : t.status = "resolved_loss")
        total_wagered == SumAmount(strategy_trades)
        total_pnl == SumPnl(resolved)
        clv_values == ClvValues(resolved)
        clv_positive == SelectSeq(clv_values, LAMBDA c : FracGt(c, FracOfInt(0)))
    IN  IF strategy_trades = <<>>
        THEN StrategyPerformanceDefault(strategy_name, period, start, end)
        ELSE [strategy |-> strategy_name, period |-> period,
              start_date |-> start, end_date |-> end,
              total_trades |-> Len(strategy_trades),
              open_trades |-> Len(SelectSeq(strategy_trades,
                                            LAMBDA t : t.status = "open")),
              resolved_trades |-> Len(resolved),
              wins |-> Len(wins), losses |-> Len(losses),
              win_rate |-> RateOf(wins, resolved),
              total_wagered |-> total_wagered,
              total_pnl |-> total_pnl,
              roi |-> RoiOf(total_pnl, total_wagered),
              avg_clv |-> IF clv_values # <<>> THEN Mean(clv_values)
                          ELSE FracOfInt(0),
              clv_positive_count |-> Len(clv_positive),
              clv_positive_rate |-> RateOf(clv_positive, clv_values),
              max_drawdown |-> _calculate_max_drawdown(resolved),
              by_category |-> _group_by_field(resolved, "market_category"),
              by_platform |-> _group_by_field(resolved, "platform")]

\* compare_strategies: the items of the result dict, in the order the set of
\* strategy names is iterated (strategies, an order that set can have).
compare_strategies(trades, strategies, clock) ==
    [k \in 1..Len(strategies) |->
        evaluate_strategy(trades, strategies[k], "all_time", None, None, clock)]

\* The orders in which set(t.strategy for t in self.trades) can be iterated:
\* the order of a set of strings changes with the hash seed of the process.
StrategyOrders(trades) ==
    LET names == {trades[i].strategy : i \in 1..Len(trades)}
    IN  {o \in [1..Cardinality(names) -> names] :
            \A i, j \in 1..Cardinality(names) : i # j => o[i] # o[j]}

\* min(items, key=...) / max(items, key=...): the first item of the least /
\* greatest key; 0 for no item.
FirstLeast(keys) ==
    IF keys = <<>> THEN 0
    ELSE CHOOSE k \in 1..Len(keys) :
            /\ \A j \in 1..Len(keys) : ~FracGt(keys[k], keys[j])
            /\ \A j \in 1..(k - 1) : FracGt(keys[j], keys[k])

FirstGreatest(keys) ==
    IF keys = <<>> THEN 0
    ELSE CHOOSE k \in 1..Len(keys) :
            /\ \A j \in 1..Len(keys) : ~FracGt(keys[j], keys[k])
            /\ \A j \in 1..(k - 1) : FracGt(keys[k], keys[j])

\* A get_strategy_suggestions that goes on to the rules whatever the sample.
get_strategy_suggestions_NoSampleCheck(performance) ==
    <<Line("Strategy performing within expectations - continue monitoring", None)>>

\* StrategyEvaluator.get_strategy_suggestions
get_strategy_suggestions(performance) ==
    IF performance.resolved_trades < 10
    THEN <<Line("Only {performance.resolved_trades} resolved trades - need more data for reliable analysis",
                Some(FracOfInt(performance.resolved_trades)))>>
    ELSE
    LET avg_clv == performance.avg_clv
        rate == performance.clv_positive_rate
        Below(a, k) == FracGt(FracOfInt(k), a)
        Above(a, k) == FracGt(a, FracOfInt(k))
        worst == FirstLeast([k \in 1..Len(performance.by_category) |->
                                 performance.by_category[k].roi])
        suggestions ==
            (IF Below(avg_clv, 0)
             THEN <<Line("Negative average CLV ({performance.avg_clv:.1f}%) - review entry criteria",
                         Some(avg_clv))>>
                  \o (IF Below(avg_clv, -5)
                      THEN <<Line("Consider pausing this strategy until edge is re-established", None)>>
                      ELSE <<>>)
             ELSE IF Above(avg_clv, 5)
             THEN <<Line("Strong CLV ({performance.avg_clv:.1f}%) - consider increasing position sizes",
                         Some(avg_clv))>>
             ELSE <<>>)
         \o (IF FracGt(Frac(4, 10), rate)
             THEN <<Line("Only {performance.clv_positive_rate:.0%} of trades beat closing line - entry timing needs work",
                         Some(rate))>>
             ELSE IF FracGt(rate, Frac(6, 10))
             THEN <<Line("Excellent CLV rate ({performance.clv_positive_rate:.0%}) - strategy has consistent edge",
                         Some(rate))>>
             ELSE <<>>)
         \o (IF FracGt(Frac(3, 10), performance.win_rate) /\ Above(avg_clv, 0)
             THEN <<Line("Low win rate despite positive CLV - variance or small sample size", None)>>
             ELSE <<>>)
         \o (IF FracGt(performance.win_rate, Frac(7, 10)) /\ Below(avg_clv, 0)
             THEN <<Line("High win rate with negative CLV - getting lucky, adjust entries", None)>>
             ELSE <<>>)
         \o (IF Below(performance.roi, -10)
             THEN <<Line("Significant losses ({performance.roi:.1f}% ROI) - reduce exposure",
                         Some(performance.roi))>>
             ELSE IF Above(performance.roi, 20)
             THEN <<Line("Strong returns ({performance.roi:.1f}% ROI) - maintain current approach",
                         Some(performance.roi))>>
             ELSE <<>>)
         \o (IF worst # 0 /\ Below(performance.by_category[worst].roi, -20)
             THEN <<Line("Underperforming in {worst_cat[0]} ({worst_cat[1]['roi']:.0f}% ROI) - consider avoiding this category",
                         Some(<<performance.by_category[worst].name,
                                performance.by_category[worst].roi>>))>>
             ELSE <<>>)
    IN  IF suggestions = <<>>
        THEN <<Line("Strategy performing within expectations - continue monitoring", None)>>
        ELSE suggestions

\* ------------------------------------------------------------ GET /api/performance
\* main._get_strategy_performance over the rows of the strategy.
_get_strategy_performance(db, strategy, period) ==
    LET trades == SelectSeq(db, LAMBDA t : t.strategy = strategy)
        open_trades == SelectSeq(trades, LAMBDA t : t.status = "open")
        resolved == SelectSeq(trades, LAMBDA t : t.status # "open")
        wins == SelectSeq(resolved, LAMBDA t : t.status = "resolved_win")
        total_wagered == SumAmount(trades)
        total_pnl == SumPnl(resolved)
        clv_values == ClvValues(resolved)
        clv_positive == SelectSeq(clv_values, LAMBDA c : FracGt(c, FracOfInt(0)))
    IN  IF trades = <<>>
        THEN [trades |-> 0, message |-> "No trades found"]
        ELSE [strategy |-> strategy, period |-> period,
              total_trades |-> Len(trades),
              open_trades |-> Len(open_trades),
              resolved_trades |-> Len(resolved),
              wins |-> Len(wins),
              losses |-> Len(resolved) - Len(wins),
              win_rate |-> RateOf(wins, resolved),
              total_wagered |-> total_wagered,
              total_pnl |-> total_pnl,
              roi |-> RoiOf(total_pnl, total_wagered),
              avg_clv |-> IF clv_values # <<>>
                          THEN FracDiv(SumFracs(clv_values),
                                       FracOfInt(Len(clv_values)))
                          ELSE FracOfInt(0),
              clv_positive_rate |-> RateOf(clv_positive, clv_values)]

\* ------------------------------------------------------------ the two performance reports
\* Trades of two strategies in every status, created two hours or two days
\* before the reports are asked for.
PerformanceRows ==
    LET T(id, created_at, strategy, amount, status, pnl, clv, category) ==
            AnalyzedTrade(
                [TradeDB(id, created_at, "polymarket", "1", "yes", 50, amount,
                         Shares(amount, 50), strategy)
                   EXCEPT !.status = status, !.pnl = pnl, !.clv = clv,
                          !.resolution_date =
                              IF status \in {"resolved_win", "resolved_loss"}
                              THEN Some(created_at + 1) ELSE None],
                category, None)
    IN  <<T(1, -48, "yield_farming", 20, "resolved_win", Some(FracOfInt(20)),
            Some(FracOfInt(10)), Some("politics")),
          T(2, -2, "yield_farming", 30, "resolved_loss", Some(FracOfInt(-30)),
            Some(FracOfInt(-20)), None),
          T(3, -2, "yield_farming", 10, "cancelled", None, None, None),
          T(4, -2, "yield_farming", 10, "open", None, None, None),
          T(5, -2, "momentum", 20, "resolved_win", Some(FracOfInt(20)), None,
            Some("crypto")),
          T(6, -48, "momentum", 20, "cancelled", None, None, None)>>

PerformanceLedgers ==
    {SelectSeq(PerformanceRows, LAMBDA t : t.id \in S) :
        S \in SUBSET {t.id : t \in Range(PerformanceRows)}}

PerformanceArgs ==
    [fn : {"performance"},
     db : PerformanceLedgers,
     strategy : {"yield_farming", "momentum"},
     period : {"all_time", "daily"}]

InitPerformance ==
    /\ Started
    /\ args \in {Some(a) : a \in PerformanceArgs}
    /\ ret = None

\* The reports made so far, by path: <<>> until the path has run.
PerformanceSoFar ==
    IF IsNone(ret) THEN [api |-> <<>>, evaluator |-> <<>>] ELSE Val(ret)

\* GET /api/performance/{strategy}
ApplyGetStrategyPerformance ==
    /\ ~IsNone(args) /\ Val(args).fn = "performance"
    /\ PerformanceSoFar.api = <<>>
    /\ ret' = Some([PerformanceSoFar EXCEPT !.api =
                  <<_get_strategy_performance(Val(args).db, Val(args).strategy,
                                              Val(args).period)>>])
    /\ UNCHANGED <<settings, now, ledger, log, origin, n_updates, script,
                   locals, args>>

\* StrategyEvaluator over the trades of the same ledger.
ApplyEvaluateStrategy ==
    /\ ~IsNone(args) /\ Val(args).fn = "performance"
    /\ PerformanceSoFar.evaluator = <<>>
    /\ ret' = Some([PerformanceSoFar EXCEPT !.evaluator =
                  <<evaluate_strategy(Val(args).db, Val(args).strategy,
                                      Val(args).period, None, None, now)>>])
    /\ UNCHANGED <<settings, now, ledger, log, origin, n_updates, script,
                   locals, args>>

NextPerformance == ApplyGetStrategyPerformance \/ ApplyEvaluateStrategy

SpecPerformance == InitPerformance /\ [][NextPerformance]_vars

\* ------------------------------------------------------------ ParameterTuner
RECURSIVE SumEntryPrice(_)
SumEntryPrice(s) ==
    IF s = <<>> THEN 0 ELSE Head(s).entry_price + SumEntryPrice(Tail(s))

\* The CalibrationPoint of a bucket that has trades; prices in hundredths,
\* the rates and the error as exact fractions.
CalibrationPoint(bucket_start, bucket_end, bucket_trades) ==
    LET wins == SelectSeq(bucket_trades, LAMBDA t : t.status = "resolved_win")
        avg_entry == Frac(SumEntryPrice(bucket_trades), 100 * Len(bucket_trades))
        actual_win_rate == Frac(Len(wins), Len(bucket_trades))
        calibration_error == FracSub(actual_win_rate, avg_entry)
    IN  [price_bucket |-> <<bucket_start, bucket_end>>,
         bucket_start |-> bucket_start, bucket_end |-> bucket_end,
         total_trades |-> Len(bucket_trades),
         resolved_trades |-> Len(bucket_trades),
         avg_entry_price |-> avg_entry,
         actual_win_rate |-> actual_win_rate,
         calibration_error |-> calibration_error,
         is_overpriced |-> FracGt(Frac(-5, 100), calibration_error),
         is_underpriced |-> FracGt(calibration_error, Frac(5, 100))]

\* A loop that puts a price on a bucket boundary into the lower bucket.
RECURSIVE CalibrationLoop_UpperInclusive(_, _)
CalibrationLoop_UpperInclusive(resolved, n) ==
    IF n = 0 THEN <<>>
    ELSE LET bucket_start == 10 * (n - 1)
             bucket_end == 10 * n
             bucket_trades == SelectSeq(resolved, LAMBDA t :
                                  bucket_start < t.entry_price
                                  /\ t.entry_price <= bucket_end)
             before == CalibrationLoop_UpperInclusive(resolved, n - 1)
         IN  IF bucket_trades = <<>> THEN before
             ELSE Append(before,
                         CalibrationPoint(bucket_start, bucket_end, bucket_trades))

\* The loop of calculate_calibration over the first n of the ten buckets.
RECURSIVE CalibrationLoop(_, _)
CalibrationLoop(resolved, n) ==
    IF n = 0 THEN <<>>
    ELSE LET bucket_start == 10 * (n - 1)
             bucket_end == 10 * n
             bucket_trades == SelectSeq(resolved, LAMBDA t :
                                  bucket_start <= t.entry_price
                                  /\ t.entry_price < bucket_end)
             before == CalibrationLoop(resolved, n - 1)
         IN  IF bucket_trades = <<>> THEN before
             ELSE Append(before,
                         CalibrationPoint(bucket_start, bucket_end, bucket_trades))

\* ParameterTuner.calculate_calibration(trades); trades or self.trades takes
\* the tuner's own trades for None and for an empty list.
calculate_calibration(self_trades, trades) ==
    LET given == IF IsNone(trades) \/ Val(trades) = <<>> THEN self_trades
                 ELSE Val(trades)
    IN  CalibrationLoop(ResolvedTrades(given), 10)

\* [c.price_bucket for c in calibration if <flag> and c.total_trades >= 3]
BucketsWhere(calibration, flag) ==
    LET chosen == SelectSeq(calibration, LAMBDA c :
                      /\ (IF flag = "is_overpriced" THEN c.is_overpriced
                          ELSE c.is_underpriced)
                      /\ c.total_trades >= 3)
    IN  [k \in 1..Len(chosen) |-> chosen[k].price_bucket]

_analyze_entry_prices(self_trades, trades) ==
    LET calibration == calculate_calibration(self_trades, Some(trades))
        overpriced == BucketsWhere(calibration, "is_overpriced")
        underpriced == BucketsWhere(calibration, "is_underpriced")
    IN     (IF overpriced # <<>>
            THEN <<Line("Overpaying in price range(s): {buckets} - require higher edge or avoid",
                        Some(overpriced))>>
            ELSE <<>>)
        \o (IF underpriced # <<>>
            THEN <<Line("Finding edge in range(s): {buckets} - consider increasing allocation",
                        Some(underpriced))>>
            ELSE <<>>)

\* The loop of _analyze_strategy_allocation over the first n strategies.
RECURSIVE StrategyAllocationLoop(_, _)
StrategyAllocationLoop(strategy_perf, n) ==
    IF n = 0 THEN <<>>
    ELSE LET perf == strategy_perf[n]
             before == StrategyAllocationLoop(strategy_perf, n - 1)
         IN  IF perf.resolved_trades >= 5 /\ FracGt(FracOfInt(-5), perf.avg_clv)
             THEN Append(before,
                    Line("Strategy '{name}' has negative edge (CLV: {perf.avg_clv:.1f}%) - reduce allocation or pause",
                         Some(<<perf.strategy, perf.avg_clv>>)))
             ELSE IF perf.resolved_trades >= 5 /\ FracGt(perf.avg_clv, FracOfInt(5))
             THEN Append(before,
                    Line("Strategy '{name}' showing strong edge (CLV: {perf.avg_clv:.1f}%) - consider increasing allocation",
                         Some(<<perf.strategy, perf.avg_clv>>)))
             ELSE before

_analyze_strategy_allocation(self_trades, strategies, clock) ==
    StrategyAllocationLoop(compare_strategies(self_trades, strategies, clock),
                           Len(strategies))

\* mean(t.clv for t in trades if t.clv) if any(t.clv for t in trades) else 0
MeanTruthyClv(trades) ==
    LET truthy == SelectSeq(ClvValues(trades), LAMBDA c : FracTruthy(c))
    IN  IF truthy # <<>> THEN Mean(truthy) ELSE FracOfInt(0)

_analyze_position_sizing(trades) ==
    LET large_trades == SelectSeq(trades, LAMBDA t : t.amount > 30)
        small_trades == SelectSeq(trades, LAMBDA t : t.amount <= 30)
        large_clv == MeanTruthyClv(large_trades)
        small_clv == MeanTruthyClv(small_trades)
    IN  IF /\ Len(large_trades) >= 3 /\ Len(small_trades) >= 3
           /\ FracGt(FracSub(small_clv, FracOfInt(3)), large_clv)
        THEN <<Line("Larger positions underperforming (CLV: {large_clv:.1f}% vs {small_clv:.1f}%) - consider smaller sizes",
                    Some(<<large_clv, small_clv>>))>>
        ELSE <<>>

\* (t.market_end_date - t.created_at).days
DaysToExpiry(t) == (Val(t.market_end_date) - t.created_at) \div HoursPerDay

_analyze_timing(trades) ==
    LET timed_trades == SelectSeq(trades, LAMBDA t :
                            ~IsNone(t.market_end_date) /\ ~IsNone(t.clv))
        early_trades == SelectSeq(timed_trades, LAMBDA t : DaysToExpiry(t) > 7)
        late_trades == SelectSeq(timed_trades, LAMBDA t : DaysToExpiry(t) <= 7)
    IN  IF Len(timed_trades) >= 5 /\ early_trades # <<>> /\ late_trades # <<>>
        THEN LET early_clv == Mean(ClvValues(early_trades))
                 late_clv == Mean(ClvValues(late_trades))
             IN  IF FracGt(early_clv, FracAdd(late_clv, FracOfInt(3)))
                 THEN <<Line("Better CLV on early entries ({early_clv:.1f}% vs {late_clv:.1f}%) - enter earlier in market lifecycle",
                             Some(<<early_clv, late_clv>>))>>
                 ELSE IF FracGt(late_clv, FracAdd(early_clv, FracOfInt(3)))
                 THEN <<Line("Better CLV on late entries ({late_clv:.1f}% vs {early_clv:.1f}%) - wait for price discovery",
                             Some(<<late_clv, early_clv>>))>>
                 ELSE <<>>
        ELSE <<>>

\* trade.market_category or "uncategorized"
CategoryOf(trade) ==
    IF IsNone(trade.market_category) THEN "uncategorized"
    ELSE Val(trade.market_category)

\* The loop of _analyze_categories over the first n categories.
RECURSIVE CategoriesLoop(_, _, _)
CategoriesLoop(trades, cats, n) ==
    IF n = 0 THEN <<>>
    ELSE LET cat_trades == SelectSeq(trades, LAMBDA t : CategoryOf(t) = cats[n])
             clv_values == ClvValues(cat_trades)
             before == CategoriesLoop(trades, cats, n - 1)
         IN  IF Len(cat_trades) >= 3 /\ clv_values # <<>>
             THEN IF FracGt(FracOfInt(-5), Mean(clv_values))
                  THEN Append(before,
                         Line("Underperforming in '{cat}' (CLV: {avg_clv:.1f}%) - consider avoiding or reducing",
                              Some(<<cats[n], Mean(clv_values)>>)))
                  ELSE IF FracGt(Mean(clv_values), FracOfInt(5))
                  THEN Append(before,
                         Line("Strong performance in '{cat}' (CLV: {avg_clv:.1f}%) - lean into this category",
                              Some(<<cats[n], Mean(clv_values)>>)))
                  ELSE before
             ELSE before

_analyze_categories(trades) ==
    LET cats == DistinctInOrder([i \in 1..Len(trades) |-> CategoryOf(trades[i])])
    IN  CategoriesLoop(trades, cats, Len(cats))

_analyze_clv_patterns(trades) ==
    LET clv_values == ClvValues(trades)
    IN  IF clv_values = <<>> THEN <<>>
        ELSE LET avg_clv == Mean(clv_values)
                 clv_positive_rate ==
                     Frac(Len(SelectSeq(clv_values, LAMBDA c : FracGt(c, FracOfInt(0)))),
                          Len(clv_values))
             IN  IF FracGt(FracOfInt(0), avg_clv)
                 THEN <<Line("Overall negative CLV ({avg_clv:.1f}%) - market is consistently pricing better than us",
                             Some(avg_clv))>>
                      \o (IF FracGt(Frac(4, 10), clv_positive_rate)
                          THEN <<Line("Entry timing consistently poor - consider using limit orders or waiting for price moves", None)>>
                          ELSE <<>>)
                 ELSE IF FracGt(avg_clv, FracOfInt(3))
                 THEN <<Line("Consistently beating closing line ({avg_clv:.1f}% CLV) - edge is real, maintain discipline",
                             Some(avg_clv))>>
                 ELSE <<>>

\* ParameterTuner(self_trades).suggest_improvements(), the set of strategy
\* names being iterated in the order strategies.
suggest_improvements(self_trades, strategies, clock) ==
    IF Len(self_trades) < 5
    THEN <<Line("Need more trades for meaningful analysis (minimum 5)", None)>>
    ELSE
    LET resolved == ResolvedTrades(self_trades)
        improvements ==
               _analyze_entry_prices(self_trades, resolved)
            \o _analyze_strategy_allocation(self_trades, strategies, clock)
            \o _analyze_position_sizing(resolved)
            \o _analyze_timing(resolved)
            \o _analyze_categories(resolved)
            \o _analyze_clv_patterns(resolved)
    IN  IF resolved = <<>>
        THEN <<Line("No resolved trades yet - analysis pending", None)>>
        ELSE IF improvements # <<>> THEN improvements
        ELSE <<Line("No specific improvements identified - maintain current approach", None)>>

\* round(x, 2) of a fraction.
Round2(x) == Frac(RoundHalfEven(100 * x[1], x[2]), 100)

FracMin(a, b) == IF FracGt(a, b) THEN b ELSE a

\* mean(t.amount for t in trades) if trades else 10
MeanAmountOr10(trades) ==
    IF trades # <<>> THEN Frac(SumAmount(trades), Len(trades)) ELSE FracOfInt(10)

\* ParameterTuner(self_trades).get_optimal_parameters(), the set of strategy
\* names being iterated in the order strategies.
get_optimal_parameters(self_trades, strategies, clock) ==
    LET resolved == ResolvedTrades(self_trades)
    IN  IF Len(resolved) < 10
        THEN [status |-> "insufficient_data", min_required |-> 10]
        ELSE
        LET calibration == calculate_calibration(self_trades, Some(resolved))
            positive_clv_trades == SelectSeq(resolved, LAMBDA t :
                ~IsNone(t.clv) /\ FracGt(Val(t.clv), FracOfInt(0)))
            negative_clv_trades == SelectSeq(resolved, LAMBDA t :
                ~IsNone(t.clv) /\ FracGt(FracOfInt(0), Val(t.clv)))
            avg_size_winners == MeanAmountOr10(positive_clv_trades)
            avg_size_losers == MeanAmountOr10(negative_clv_trades)
            strategy_performance == compare_strategies(self_trades, strategies, clock)
            best == FirstGreatest([k \in 1..Len(strategy_performance) |->
                                      strategy_performance[k].avg_clv])
        IN  [status |-> "calculated",
             sample_size |-> Len(resolved),
             entry_prices |->
                 [best_buckets |-> BucketsWhere(calibration, "is_underpriced"),
                  avoid_buckets |-> BucketsWhere(calibration, "is_overpriced")],
             position_sizing |->
                 [recommended_base |-> Round2(FracMin(avg_size_winners, FracOfInt(20))),
                  max_position |->
                      Round2(FracMin(FracMul(avg_size_winners, FracOfInt(2)),
                                     FracOfInt(50))),
                  note |-> IF FracGt(avg_size_winners, avg_size_losers)
                           THEN "Winners averaged larger sizes"
                           ELSE "Consider smaller sizes"],
             strategy_allocation |->
                 [best_performing |-> strategy_performance[best].strategy,
                  best_clv |-> Round2(strategy_performance[best].avg_clv)]]

\* ------------------------------------------------------------ the calibration alone
\* Four trades of the bucket 0.70-0.80 that average 0.75, one of them won;
\* trades on the boundaries 0.80 and 0.20, at the ends 0.01 and 0.99, and
\* trades that are not resolved.
CalibrationRows ==
    LET T(id, entry_price, status) ==
            [TradeDB(id, 0, "polymarket", "1", "yes", entry_price, 20,
                     Shares(20, entry_price), "yield_farming")
               EXCEPT !.status = status]
    IN  <<T(1, 71, "resolved_win"), T(2, 79, "resolved_loss"),
          T(3, 75, "resolved_loss"), T(4, 75, "resolved_loss"),
          T(5, 80, "resolved_win"), T(6, 20, "resolved_loss"),
          T(7, 1, "resolved_loss"), T(8, 99, "resolved_win"),
          T(9, 75, "open"), T(10, 45, "cancelled")>>

CalibrationLists ==
    {SelectSeq(CalibrationRows, LAMBDA t : t.id \in S) :
        S \in SUBSET {t.id : t \in Range(CalibrationRows)}}

CalibrationArgs ==
    [fn : {"calculate_calibration"},
     self_trades : {<<>>, SubSeq(CalibrationRows, 5, 7)},
     trades : {None} \cup {Some(l) : l \in CalibrationLists}]

InitCalibration ==
    /\ Started
    /\ args \in {Some(a) : a \in CalibrationArgs}
    /\ ret = None

ApplyCalculateCalibration ==
    /\ ~IsNone(args) /\ Val(args).fn = "calculate_calibration"
    /\ IsNone(ret)
    /\ ret' = Some(calculate_calibration(Val(args).self_trades, Val(args).trades))
    /\ UNCHANGED <<settings, now, ledger, log, origin, n_updates, script,
                   locals, args>>

NextCalibration == ApplyCalculateCalibration

SpecCalibration == InitCalibration /\ [][NextCalibration]_vars

\* ------------------------------------------------------------ the degraded results
\* Five trades that are not resolved, ten resolved trades of one strategy and
\* two of another.
TunerRows ==
    LET Unresolved(id, strategy, status) ==
            AnalyzedTrade(
                [TradeDB(id, 0 - id, "polymarket", "1", "yes", 50, 20,
                         Shares(20, 50), strategy) EXCEPT !.status = status],
                None, None)
        Resolved(id, strategy) ==
            LET won == id % 3 = 0
                entry_price == IF id <= 9 THEN 75 ELSE 35
                amount == IF id % 2 = 0 THEN 40 ELSE 20
            IN  AnalyzedTrade(
                    [TradeDB(id, 0 - id, "polymarket", "1", "yes", entry_price,
                             amount, Shares(amount, entry_price), strategy)
                       EXCEPT !.status = IF won THEN "resolved_win"
                                        ELSE "resolved_loss",
                              !.resolution_date = Some(1 - id),
                              !.pnl = Some(FracOfInt(IF won THEN amount
                                                     ELSE 0 - amount)),
                              !.clv = IF id = 15 THEN None
                                      ELSE IF won THEN Some(FracOfInt(8))
                                      ELSE Some(FracOfInt(-10))],
                    IF id <= 8 THEN Some("politics") ELSE None,
                    Some((IF id % 2 = 0 THEN 10 ELSE 2) * HoursPerDay - id))
    IN  <<Unresolved(1, "yield_farming", "open"),
          Unresolved(2, "momentum", "open"),
          Unresolved(3, "yield_farming", "cancelled"),
          Unresolved(4, "yield_farming", "open"),
          Unresolved(5, "momentum", "cancelled")>>
        \o [k \in 1..10 |-> Resolved(k + 5, "yield_farming")]
        \o <<Resolved(16, "momentum"), Resolved(17, "momentum")>>

\* The trades a tuner or an evaluator is made with: every run of the rows.
TunerLists ==
    {SubSeq(TunerRows, i, j) : i \in 1..(Len(TunerRows) + 1), j \in 0..Len(TunerRows)}

TunerArgs ==
    [fn : {"suggest_improvements", "get_optimal_parameters"},
     self_trades : TunerLists]
    \cup [fn : {"get_strategy_suggestions"},
          performance : {evaluate_strategy(l, name, "all_time", None, None, 0) :
                           l \in TunerLists,
                           name \in {"yield_farming", "momentum"}}]

InitTuner ==
    /\ Started
    /\ args \in {Some(a) : a \in TunerArgs}
    /\ ret = None

ApplySuggestImprovements ==
    /\ ~IsNone(args) /\ Val(args).fn = "suggest_improvements"
    /\ IsNone(ret)
    /\ \E strategies \in StrategyOrders(Val(args).self_trades) :
          ret' = Some(suggest_improvements(Val(args).self_trades, strategies, now))
    /\ UNCHANGED <<settings, now, ledger, log, origin, n_updates, script,
                   locals, args>>

ApplyGetOptimalParameters ==
    /\ ~IsNone(args) /\ Val(args).fn = "get_optimal_parameters"
    /\ IsNone(ret)
    /\ \E strategies \in StrategyOrders(Val(args).self_trades) :
          ret' = Some(get_optimal_parameters(Val(args).self_trades, strategies, now))
    /\ UNCHANGED <<settings, now, ledger, log, origin, n_updates, script,
                   locals, args>>

ApplyGetStrategySuggestions ==
    /\ ~IsNone(args) /\ Val(args).fn = "get_strategy_suggestions"
    /\ IsNone(ret)
    /\ ret' = Some(get_strategy_suggestions(Val(args).performance))
    /\ UNCHANGED <<settings, now, ledger, log, origin, n_updates, script,
                   locals, args>>

NextTuner ==
    \/ ApplySuggestImprovements
    \/ ApplyGetOptimalParameters
    \/ ApplyGetStrategySuggestions

SpecTuner == InitTuner /\ [][NextTuner]_vars

\* ------------------------------------------------------------ properties
OpenRows == SelectSeq(ledger, LAMBDA t : t.status = "open")

\* C1: under every interleaving of concurrent non-forced execute_opportunity
\* calls, the amounts of the open trades never sum to more than
\* max_total_exposure.
C1_ExposureWithinCap ==
    SumAmount(OpenRows) <= settings.max_total_exposure

\* C2: under every interleaving of concurrent non-forced execute_opportunity
\* calls, no (platform, market id) ever has more open trades than
\* max_positions_per_market.
C2_PositionsPerMarketWithinMax ==
    \A m \in Markets :
        Len(SelectSeq(OpenRows, LAMBDA t : /\ t.platform = m.platform
                                           /\ t.market_id = m.market_id))
            <= EngineRiskManager(settings).max_positions_per_market

LimitTags ==
    <<"max_position_size", "max_total_exposure", "daily_volume",
      "positions_per_market">>

\* The checks an input fails, by their place in the documented order.
FailingChecks(a) ==
    LET amount == a.opportunity.recommended_amount
        on_market == {i \in DOMAIN a.existing_positions :
                        /\ a.existing_positions[i].platform = a.opportunity.market.platform
                        /\ a.existing_positions[i].market_id = a.opportunity.market.market_id}
    IN  {i \in 1..4 :
            \/ i = 1 /\ amount > a.rm.max_position_size
            \/ i = 2 /\ a.current_exposure.total_exposure + amount > a.rm.max_total_exposure
            \/ i = 3 /\ a.current_exposure.daily_traded + amount > a.rm.max_daily_volume
            \/ i = 4 /\ Cardinality(on_market) >= a.rm.max_positions_per_market}

\* C3: check_limits allows exactly the inputs that fail no check, and on a
\* denial details.limit is the tag of the first failing check in the order
\* max_position_size, max_total_exposure, daily_volume, positions_per_market.
C3_FirstFailingCheckWins ==
    (~IsNone(ret) /\ Val(args).fn = "check_limits") =>
        LET failing == FailingChecks(Val(args))
            first == CHOOSE i \in failing : \A j \in failing : i <= j
        IN  /\ Val(ret).allowed <=> failing = {}
            /\ failing # {} =>
                  /\ "limit" \in DOMAIN Val(ret).details
                  /\ Val(ret).details.limit = LimitTags[first]

\* C3 witness: an input over both max_position_size and max_total_exposure
\* was denied on max_position_size.
C3_Witness ==
    /\ ~IsNone(ret)
    /\ {1, 2} \subseteq FailingChecks(Val(args))
    /\ ~Val(ret).allowed
    /\ Val(ret).details.limit = "max_position_size"

\* C4: a non-forced execute_opportunity call that a risk check denies leaves
\* the ledger and the audit log exactly as they were before the call.
C4_DeniedCallWritesNothing ==
    [][\A p \in Procs :
          (pc[p] # "done" /\ pc'[p] = "done"
            /\ ~IsNone(risk'[p]) /\ ~Val(risk'[p]).allowed)
          => (ledger' = ledger /\ log' = log /\ writes'[p] = 0)]_vars

\* C4 witness: a call over the max-position-size limit has been denied, with
\* trades in the ledger, and has written nothing.
C4_Witness ==
    \E p \in Procs :
        /\ pc[p] = "done"
        /\ ~IsNone(risk[p]) /\ ~Val(risk[p]).allowed
        /\ Val(risk[p]).details.limit = "max_position_size"
        /\ Val(opp[p]).recommended_amount > settings.max_position_size
        /\ ~Val(result[p]).success
        /\ writes[p] = 0
        /\ ledger # <<>>

\* C5: the TradeResult of a denied execute_opportunity call carries the tag of
\* the failing limit as well as the reason text.
C5_DenialNamesLimit ==
    \A p \in Procs :
        (pc[p] = "done" /\ ~IsNone(risk[p]) /\ ~Val(risk[p]).allowed)
        => /\ Val(result[p]).error = Some(Val(risk[p]).reason)
           /\ "limit" \in DOMAIN Val(result[p])
           /\ Val(result[p]).limit = Val(risk[p]).details.limit

\* C6 as stated: every trade in the ledger was written by an
\* execute_opportunity call that passed check_limits or was forced.
C6_OnlyEngineWritesTrades ==
    \A i \in DOMAIN ledger :
        /\ origin[i].op = "execute_opportunity"
        /\ origin[i].allowed \/ origin[i].force

\* C6 amended: every trade written by execute_opportunity comes from a call
\* that passed check_limits or was forced; every other trade was written by
\* create_trade, which runs no risk check; and every trade is written open.
C6_ForceIsTheEnginesOnlyBypass ==
    /\ [](\A i \in DOMAIN ledger :
            \/ /\ origin[i].op = "execute_opportunity"
               /\ origin[i].allowed \/ origin[i].force
            \/ origin[i].op = "create_trade")
    /\ [][Len(ledger') > Len(ledger) =>
            ledger'[Len(ledger')].status = "open"]_vars

\* C6 witness: the ledger holds a forced trade that no risk check passed and
\* a trade that create_trade wrote.
C6_Witness ==
    /\ \E i \in DOMAIN ledger :
          origin[i].op = "execute_opportunity" /\ origin[i].force
    /\ \E i \in DOMAIN ledger : origin[i].op = "create_trade"
    /\ SumAmount(OpenRows) > settings.max_total_exposure

\* shares * entry_price = amount, with the price in hundredths.
SharesMatch(t) == t.shares[1] * t.entry_price = t.shares[2] * t.amount * 100

\* C7: every trade's shares equal amount / entry_price, and no step changes
\* the shares of a trade in the ledger.
C7_SharesFixedAtCreation ==
    /\ [](\A i \in DOMAIN ledger : SharesMatch(ledger[i]))
    /\ [][\A i \in DOMAIN ledger : ledger'[i].shares = ledger[i].shares]_vars

\* C7 witness: a trade of 70 at 0.60 holds 350/3 shares after its resolution.
C7_Witness ==
    \E i \in DOMAIN ledger :
        /\ ledger[i].status \in {"resolved_win", "resolved_loss"}
        /\ ledger[i].amount = 70 /\ ledger[i].entry_price = 60
        /\ ledger[i].shares = <<350, 3>>

ResolvedStates == {"resolved_win", "resolved_loss"}

ResolutionFieldNames ==
    {"resolution_date", "resolution_outcome", "closing_price", "pnl", "roi",
     "clv", "was_good_trade", "lessons"}

\* C8: once a trade is resolved, no later attempt changes its status or any
\* of its resolution fields.
C8_SecondResolutionChangesNothing ==
    [][\A i \in DOMAIN ledger :
          ledger[i].status \in ResolvedStates =>
              /\ ledger'[i].status = ledger[i].status
              /\ \A f \in ResolutionFieldNames : ledger'[i][f] = ledger[i][f]]_vars

\* C9: every trade is written open, and a trade that is resolved or
\* cancelled keeps its status for ever.
C9_StatusIsMonotonic ==
    [][/\ Len(ledger') > Len(ledger) => ledger'[Len(ledger')].status = "open"
       /\ \A i \in DOMAIN ledger :
             ledger[i].status # "open" => ledger'[i].status = ledger[i].status]_vars

\* C10: an open trade has none of the resolution fields set and a resolved
\* trade has all of them set.
C10_ResolutionFieldsAllOrNone ==
    \A i \in DOMAIN ledger :
        /\ ledger[i].status = "open" =>
              \A f \in ResolutionFieldNames : IsNone(ledger[i][f])
        /\ ledger[i].status \in ResolvedStates =>
              \A f \in ResolutionFieldNames : ~IsNone(ledger[i][f])

\* The price of the side an opportunity recommends.
SidePrice(o) ==
    IF o.recommended_side = "yes" THEN o.market.yes_price ELSE o.market.no_price

\* A non-positive amount, or a side price outside (0, 1).
Malformed(o) ==
    \/ o.recommended_amount <= 0
    \/ SidePrice(o) # <<>> /\ (SidePrice(o)[1] <= 0 \/ SidePrice(o)[1] >= 100)

\* The call of slot p ends at this step.
Ends(p) == pc[p] # "done" /\ pc'[p] = "done"

\* C11: an execute_opportunity call with a non-positive amount or a side
\* price outside (0,1) ends in a failure with the ledger unchanged, and no
\* stored trade has an amount <= 0 or an entry price outside (0,1).
C11_MalformedInputNeverStored ==
    /\ [](\A i \in DOMAIN ledger :
            /\ ledger[i].amount > 0
            /\ ledger[i].entry_price > 0 /\ ledger[i].entry_price < 100)
    /\ [][\A p \in Procs :
            (Ends(p) /\ Malformed(Val(opp'[p]))) =>
                /\ ledger' = ledger
                /\ ~("success" \in DOMAIN Val(result'[p]) /\ Val(result'[p]).success)]_vars

\* C12: when the simulated executor is reached with the price of the
\* recommended side missing or <= 0, the call returns a failed TradeResult
\* with no trade and the invalid-price error, and neither the ledger nor the
\* audit log changes.
C12_InvalidPriceFailsWithoutWrite ==
    [][\A p \in Procs :
          (/\ Ends(p)
           /\ settings.paper_trading
           /\ force'[p] \/ Val(risk'[p]).allowed
           /\ SidePrice(Val(opp'[p])) = <<>> \/ SidePrice(Val(opp'[p]))[1] <= 0)
          => /\ Val(result'[p]) = [success |-> FALSE, trade |-> <<>>,
                                    error |-> <<"Invalid entry price">>,
                                    paper_trade |-> TRUE]
             /\ ledger' = ledger
             /\ log' = log]_vars

\* C12 witness: a call priced at 0 on a ledger that holds a trade has ended
\* with the invalid-price failure and no write.
C12_Witness ==
    \E p \in Procs :
        /\ pc[p] = "done"
        /\ settings.paper_trading
        /\ SidePrice(Val(opp[p])) = <<0>>
        /\ Val(result[p]).error = <<"Invalid entry price">>
        /\ writes[p] = 0
        /\ ledger # <<>>

\* C13: on an engine with paper_trading = false every ended call has returned
\* a TradeResult with success = false and an error, and no trade in the
\* ledger was written by the engine.
C13_LiveExecutorReturnsFailure ==
    ~settings.paper_trading =>
        /\ \A i \in DOMAIN origin : origin[i].op # "execute_opportunity"
        /\ \A p \in Procs : pc[p] = "done" =>
              /\ "success" \in DOMAIN Val(result[p])
              /\ ~Val(result[p]).success
              /\ Val(result[p]).error # <<>>

\* The sum of the amounts of the rows of db at the indices I.
RECURSIVE SumAt(_, _)
SumAt(db, I) ==
    IF I = {} THEN 0
    ELSE LET i == CHOOSE i \in I : TRUE IN db[i].amount + SumAt(db, I \ {i})

\* The rows of db created since the midnight that began the server's local
\* day: creation time and midnight both in local time.
CreatedToday(db, clock, utc_offset) ==
    {i \in DOMAIN db :
        db[i].created_at + utc_offset
            >= ((clock + utc_offset) \div HoursPerDay) * HoursPerDay}

\* C14: get_exposure reports the sum and count of the open trades, their
\* per-platform and per-strategy sums, the amounts of all trades created
\* since the start of the current local day, and the capital and daily
\* volume that remain, floored at 0.
C14_ExposureReportMatchesLedger ==
    (~IsNone(ret) /\ Val(args).fn = "get_exposure") =>
        LET db == Val(args).db
            s == Val(args).settings
            r == Val(ret)
            open == {i \in DOMAIN db : db[i].status = "open"}
            today == CreatedToday(db, Val(args).clock, s.utc_offset)
            daily_limit == 2 * s.max_total_exposure
        IN  /\ r.total_exposure = SumAt(db, open)
            /\ r.position_count = Cardinality(open)
            /\ DOMAIN r.by_platform = {db[i].platform : i \in open}
            /\ \A k \in DOMAIN r.by_platform :
                  r.by_platform[k] = SumAt(db, {i \in open : db[i].platform = k})
            /\ DOMAIN r.by_strategy = {db[i].strategy : i \in open}
            /\ \A k \in DOMAIN r.by_strategy :
                  r.by_strategy[k] = SumAt(db, {i \in open : db[i].strategy = k})
            /\ r.daily_traded = SumAt(db, today)
            /\ r.available_capital =
                  (IF s.max_total_exposure > SumAt(db, open)
                   THEN s.max_total_exposure - SumAt(db, open) ELSE 0)
            /\ r.daily_remaining =
                  (IF daily_limit > SumAt(db, today)
                   THEN daily_limit - SumAt(db, today) ELSE 0)

\* The last dry run was for opportunity o in the present ledger state.
Previewed(o) ==
    /\ ~IsNone(args)
    /\ Val(args).fn = "check_risk_limits"
    /\ Val(args).opportunity = o
    /\ Val(args).db = ledger
    /\ Val(args).clock = now

\* C15: check_risk_limits changes neither the ledger nor the audit log, and
\* it returns allowed = true exactly when a non-forced execute_opportunity
\* call with the same opportunity in the same state passes the risk checks.
C15_DryRunAgreesWithExecute ==
    /\ [][(args' # args) => (ledger' = ledger /\ log' = log)]_vars
    /\ [][\A p \in Procs :
            (Ends(p) /\ ~force'[p] /\ Previewed(Val(opp'[p]))) =>
                /\ Val(ret).allowed <=> Val(risk'[p]).allowed
                /\ ~Val(ret).allowed <=>
                      (/\ ledger' = ledger
                       /\ Val(result'[p]).error = <<Val(ret).reason>>)]_vars

\* C15 witness: the dry run denied an opportunity on positions_per_market
\* and the non-forced call made in the same state was denied as well.
C15_Witness ==
    \E p \in Procs :
        /\ pc[p] = "done" /\ ~force[p]
        /\ Previewed(Val(opp[p]))
        /\ ~Val(ret).allowed
        /\ Val(ret).details.limit = "positions_per_market"
        /\ ~Val(result[p]).success
        /\ writes[p] = 0

\* The analyzer has computed the CLV of the trade in args.
AnalyzerClvDone ==
    /\ ~IsNone(ret) /\ Val(args).fn = "clv"
    /\ Val(ret).analyzer # <<>>

\* C17: the analyzer's CLV is ((closing - entry) / entry) * 100 for a YES
\* trade and (((1 - entry) - closing) / (1 - entry)) * 100 for a NO trade,
\* rounded to 2 decimals: +50.0 for YES 0.40 closing 0.60, +16.67 for NO 0.40
\* closing 0.50; without a closing price it is None.
C17_AnalyzerClvConvention ==
    AnalyzerClvDone =>
        LET e == Val(args).trade.entry_price
            side == Val(args).trade.side
            c == Val(args).closing_price
            clv == Val(ret).analyzer[1].clv
            \* the exact CLV, in percent, as a quotient n / d with d > 0
            n == IF side = "yes" THEN 100 * (c[1] - e) ELSE 100 * ((100 - e) - c[1])
            d == IF side = "yes" THEN e ELSE 100 - e
        IN  /\ c = <<>> <=> clv = <<>>
            /\ c # <<>> =>
                  \* a multiple of 0.01 within 0.005 of the exact value
                  /\ 100 % clv[1][2] = 0
                  /\ LET k == clv[1][1] * (100 \div clv[1][2])
                     IN  /\ 2 * (k * d - 100 * n) <= d
                         /\ 2 * (100 * n - k * d) <= d
            /\ (side = "yes" /\ e = 40 /\ c = <<60>>) => clv = <<<<50, 1>>>>
            /\ (side = "no" /\ e = 40 /\ c = <<50>>) => clv = <<<<1667, 100>>>>

\* C17 witness: the analyzer has given +16.67 for the NO trade at 0.40 that
\* closed at 0.50.
C17_Witness ==
    /\ AnalyzerClvDone
    /\ Val(args).trade.side = "no"
    /\ Val(args).trade.entry_price = 40
    /\ Val(args).closing_price = <<50>>
    /\ Val(ret).analyzer[1].clv = <<<<1667, 100>>>>

\* C18: for the same trade and closing price, the CLV stored by update_trade,
\* the CLV stored by the resolution script and the CLV of the analyzer are
\* equal, and so are their beat-closing-line flags.
C18_OneClvEverywhere ==
    (/\ ~IsNone(ret) /\ Val(args).fn = "clv"
     /\ Val(ret).api # <<>> /\ Val(ret).script # <<>> /\ Val(ret).analyzer # <<>>)
    => /\ Val(ret).api = Val(ret).script
       /\ Val(ret).script = Val(ret).analyzer

\* The trade an analysis call was made on, if the ledger has it.
AnalysisSubject ==
    IF Val(args).fn = "analyze_resolved_trade" THEN <<Val(args).trade>>
    ELSE SelectSeq(Val(args).db, LAMBDA t : t.id = Val(args).trade_id)

AnalysisDone ==
    /\ ~IsNone(args) /\ ~IsNone(ret)
    /\ Val(args).fn \in {"analyze_resolved_trade", "analyze_trade"}

\* C16: analyze_resolved_trade and analyze_trade reject a trade that is Open
\* or Cancelled, and write nothing; they produce an analysis only for a
\* trade that is ResolvedWin or ResolvedLoss.
C16_UnresolvedTradeIsRejected ==
    AnalysisDone =>
        /\ ledger = <<>>
        /\ \A i \in 1..Len(AnalysisSubject) :
              AnalysisSubject[i].status \in ResolvedStates
                  <=> "raised" \notin DOMAIN Val(ret)

\* C19: each of the three lesson lists of analyze_resolved_trade, for a
\* resolved trade, has at least one line.
C19_LessonsNeverEmpty ==
    (/\ AnalysisDone /\ Val(args).fn = "analyze_resolved_trade"
     /\ Val(args).trade.status \in ResolvedStates)
    => /\ Val(ret).what_went_right # <<>>
       /\ Val(ret).what_went_wrong # <<>>
       /\ Val(ret).suggested_improvements # <<>>

\* The PnLs of the trades in resolution-time order, for trades that all have a
\* PnL and a resolution date, no two the same.
PnlsInResolutionOrder(trades) ==
    [k \in 1..Len(trades) |->
        LET i == CHOOSE i \in 1..Len(trades) :
                   Cardinality({j \in 1..Len(trades) :
                       trades[j].resolution_date[1] < trades[i].resolution_date[1]})
                     = k - 1
        IN  trades[i].pnl[1]]

\* The drawdown of the trades whose PnLs, in resolution-time order, are
\* +10, +5, -20, +3 has been computed.
DrawdownOfTheExample ==
    /\ ~IsNone(args) /\ ~IsNone(ret)
    /\ Val(args).fn = "_calculate_max_drawdown"
    /\ \A i \in 1..Len(Val(args).trades) :
          /\ ~IsNone(Val(args).trades[i].resolution_date)
          /\ ~IsNone(Val(args).trades[i].pnl)
    /\ PnlsInResolutionOrder(Val(args).trades)
          = <<FracOfInt(10), FracOfInt(5), FracOfInt(-20), FracOfInt(3)>>

\* C20 as stated: for trades whose PnLs in resolution-time order are
\* +10, +5, -20, +3, the max drawdown is 35.
C20_DrawdownOfExampleIs35 ==
    DrawdownOfTheExample => Val(ret) = FracOfInt(35)

\* C20: for trades whose PnLs in resolution-time order are +10, +5, -20, +3,
\* in whatever order the list holds them, the max drawdown is 20: from the
\* running peak of 15 down to the cumulative PnL of -5.
C20_DrawdownOfExampleIs20 ==
    DrawdownOfTheExample => Val(ret) = FracOfInt(20)

\* C20 witness: the example's trades, listed latest first, gave 20.
C20_Witness ==
    /\ DrawdownOfTheExample
    /\ Val(args).trades[1].id = 4
    /\ Val(args).trades[4].id = 1
    /\ Val(ret) = FracOfInt(20)

\* The trades a calibration call was about: the list given or, without one,
\* the tuner's own.
CalibratedTrades ==
    IF Val(args).trades = <<>> \/ Val(args).trades = <<<<>>>>
    THEN Val(args).self_trades ELSE Val(args).trades[1]

CalibrationDone ==
    /\ ~IsNone(args) /\ ~IsNone(ret)
    /\ Val(args).fn = "calculate_calibration"

\* The indices of the resolved trades with a price in [lo, hi).
ResolvedWithin(trades, lo, hi) ==
    {i \in 1..Len(trades) :
        /\ trades[i].status \in ResolvedStates
        /\ lo <= trades[i].entry_price /\ trades[i].entry_price < hi}

\* C21: calculate_calibration counts every resolved trade with a price in
\* [0,1) in exactly one returned bucket, the one of width 0.10 that starts at
\* or below its price; it returns no empty bucket; and each bucket has
\* error = win rate - average entry price, is_overpriced iff error < -0.05,
\* is_underpriced iff error > 0.05, never both.  Four trades averaging 0.75
\* with one win give win rate 0.25, error -0.50, is_overpriced.
C21_CalibrationBuckets ==
    CalibrationDone =>
        LET trades == CalibratedTrades
            points == Val(ret)
        IN  /\ \A i \in ResolvedWithin(trades, 0, 100) :
                  LET holding == {k \in 1..Len(points) :
                                    /\ points[k].bucket_start <= trades[i].entry_price
                                    /\ trades[i].entry_price < points[k].bucket_end}
                  IN  /\ Cardinality(holding) = 1
                      /\ \A k \in holding :
                            points[k].bucket_start = 10 * (trades[i].entry_price \div 10)
            /\ \A k \in 1..Len(points) :
                  LET p == points[k]
                      in_bucket == ResolvedWithin(trades, p.bucket_start, p.bucket_end)
                      won == {i \in in_bucket : trades[i].status = "resolved_win"}
                      e == p.calibration_error
                  IN  /\ p.bucket_end = p.bucket_start + 10
                      /\ p.bucket_start \in {10 * b : b \in 0..9}
                      /\ \A j \in 1..Len(points) :
                            j # k => points[j].bucket_start # p.bucket_start
                      /\ p.total_trades = Cardinality(in_bucket)
                      /\ p.total_trades > 0
                      /\ p.actual_win_rate[1] * p.total_trades
                            = Cardinality(won) * p.actual_win_rate[2]
                      /\ e[1] * p.actual_win_rate[2] * p.avg_entry_price[2]
                            = e[2] * (p.actual_win_rate[1] * p.avg_entry_price[2]
                                      - p.avg_entry_price[1] * p.actual_win_rate[2])
                      /\ p.is_overpriced <=> 100 * e[1] < -5 * e[2]
                      /\ p.is_underpriced <=> 100 * e[1] > 5 * e[2]
                      /\ ~(p.is_overpriced /\ p.is_underpriced)
                      /\ (/\ p.total_trades = 4 /\ Cardinality(won) = 1
                          /\ p.avg_entry_price = <<3, 4>>)
                         => /\ p.actual_win_rate = <<1, 4>>
                            /\ e = <<-1, 2>>
                            /\ p.is_overpriced

\* C21 witness: the bucket 0.70-0.80 was returned for four trades averaging
\* 0.75 with one win, next to a bucket 0.80-0.90 holding the trade at 0.80.
C21_Witness ==
    /\ CalibrationDone
    /\ \E k \in 1..Len(Val(ret)) :
          /\ Val(ret)[k].bucket_start = 70
          /\ Val(ret)[k].total_trades = 4
          /\ Val(ret)[k].calibration_error = <<-1, 2>>
          /\ Val(ret)[k].is_overpriced
    /\ \E k \in 1..Len(Val(ret)) :
          /\ Val(ret)[k].bucket_start = 80
          /\ \E i \in 1..Len(CalibratedTrades) : CalibratedTrades[i].entry_price = 80

\* The number of the strategy's trades in the ledger of a performance call
\* that have one of the given statuses.
CountOfStrategy(statuses) ==
    Cardinality({i \in 1..Len(Val(args).db) :
        /\ Val(args).db[i].strategy = Val(args).strategy
        /\ Val(args).db[i].status \in statuses})

\* C30: cancelled trades are counted neither as resolved nor as wins nor as
\* losses: each report has resolved_trades = wins + losses = the number of
\* the strategy's trades that are ResolvedWin or ResolvedLoss, and over all
\* time the API's report and the evaluator's agree on resolved_trades, wins,
\* losses and win_rate.
C30_CancelledNeverCounted ==
    (/\ ~IsNone(args) /\ ~IsNone(ret) /\ Val(args).fn = "performance"
     /\ Val(args).period = "all_time"
     /\ CountOfStrategy(TradeStatusValues) > 0)
    => LET api == Val(ret).api
           evaluator == Val(ret).evaluator
       IN  /\ api # <<>> =>
                 /\ api[1].resolved_trades = api[1].wins + api[1].losses
                 /\ api[1].resolved_trades = CountOfStrategy(ResolvedStates)
                 /\ api[1].wins = CountOfStrategy({"resolved_win"})
                 /\ api[1].losses = CountOfStrategy({"resolved_loss"})
           /\ evaluator # <<>> =>
                 /\ evaluator[1].resolved_trades
                       = evaluator[1].wins + evaluator[1].losses
                 /\ evaluator[1].resolved_trades = CountOfStrategy(ResolvedStates)
           /\ (api # <<>> /\ evaluator # <<>>) =>
                 /\ api[1].resolved_trades = evaluator[1].resolved_trades
                 /\ api[1].wins = evaluator[1].wins
                 /\ api[1].losses = evaluator[1].losses
                 /\ api[1].win_rate = evaluator[1].win_rate

\* The number of resolved trades among the trades of a tuner call.
TunerResolvedCount ==
    Cardinality({i \in 1..Len(Val(args).self_trades) :
                    Val(args).self_trades[i].status \in ResolvedStates})

TunerDone(name) == ~IsNone(args) /\ ~IsNone(ret) /\ Val(args).fn = name

\* C22: with too little data the analytics return the degraded result and
\* nothing else: get_optimal_parameters gives insufficient_data with
\* min_required 10 for fewer than 10 resolved trades, get_strategy_suggestions
\* gives the one need-more-data line for resolved_trades < 10, and
\* suggest_improvements gives one data-insufficiency line for fewer than 5
\* trades or no resolved trade.
C22_TooLittleDataIsSignalled ==
    /\ (TunerDone("get_optimal_parameters") /\ TunerResolvedCount < 10)
          => Val(ret) = [status |-> "insufficient_data", min_required |-> 10]
    /\ (TunerDone("get_strategy_suggestions")
         /\ Val(args).performance.resolved_trades < 10)
          => /\ Len(Val(ret)) = 1
             /\ Val(ret)[1].text =
                  "Only {performance.resolved_trades} resolved trades - need more data for reliable analysis"
             /\ Val(ret)[1].value = <<<<Val(args).performance.resolved_trades, 1>>>>
    /\ (TunerDone("suggest_improvements")
         /\ (Len(Val(args).self_trades) < 5 \/ TunerResolvedCount = 0))
          => /\ Len(Val(ret)) = 1
             /\ Val(ret)[1].text \in
                  {"Need more trades for meaningful analysis (minimum 5)",
                   "No resolved trades yet - analysis pending"}

\* C22 witness: nine resolved trades of one strategy got the need-more-data
\* line from get_strategy_suggestions.
C22_Witness ==
    /\ TunerDone("get_strategy_suggestions")
    /\ Val(args).performance.resolved_trades = 9
    /\ Len(Val(ret)) = 1

\* C23: when non-forced execute_opportunity calls are served one at a time,
\* mixed with resolutions, from an empty ledger, the ledger is always within
\* the four limits: every amount <= max_position_size, the open amounts sum
\* to <= max_total_exposure, the amounts created in the current local day
\* sum to <= the daily cap, and no market has more open trades than
\* max_positions_per_market.
C23_SequentialLedgerWithinLimits ==
    LET rm == EngineRiskManager(settings)
    IN  /\ \A i \in DOMAIN ledger : ledger[i].amount <= rm.max_position_size
        /\ SumAmount(OpenRows) <= rm.max_total_exposure
        /\ SumAt(ledger, CreatedToday(ledger, now, settings.utc_offset))
              <= rm.max_daily_volume
        /\ \A m \in Markets :
              Cardinality({i \in DOMAIN ledger :
                  /\ ledger[i].status = "open"
                  /\ ledger[i].platform = m.platform
                  /\ ledger[i].market_id = m.market_id})
                <= rm.max_positions_per_market

\* The positions a market holds in the eyes of check_limits.
OnMarketOf(pos, row) ==
    SelectSeq(pos, LAMBDA q : q.platform = row.platform /\ q.market_id = row.market_id)

\* The row i is open before the step and resolved or cancelled after it.
LeavesOpen(i) ==
    /\ i \in DOMAIN ledger
    /\ ledger[i].status = "open"
    /\ ledger'[i].status # "open"

\* The opportunity meets no open position on its market.
MarketIsFree(o) ==
    \A i \in DOMAIN ledger :
        ledger[i].status = "open" =>
            \/ ledger[i].platform # o.market.platform
            \/ ledger[i].market_id # o.market.market_id

Succeeds(p) ==
    /\ pc[p] # "done" /\ pc'[p] = "done"
    /\ ~IsNone(result'[p])
    /\ "success" \in DOMAIN Val(result'[p])
    /\ Val(result'[p]).success

\* C25: every paper_trade_executed entry of the audit log names a trade that
\* is in the ledger; a step leaves the log as it is or appends one entry to
\* it; and the step on which a call returns success leaves, for that call,
\* one ledger write and one log write: one Open trade under the id of the
\* result and one audit entry under that id, the last of the log.
C25_AuditEntryFollowsCommit ==
    /\ [](\A k \in DOMAIN log :
            log[k].action = "paper_trade_executed" =>
                \E i \in DOMAIN ledger : ledger[i].id = log[k].trade_id)
    /\ [][\/ log' = log
          \/ \E e \in {log'[Len(log')]} : log' = Append(log, e)]_vars
    /\ [][\A p \in Procs :
            Succeeds(p) =>
                LET id == Val(Val(result'[p]).trade).id
                IN  /\ writes'[p] = 2
                    /\ Cardinality({i \in DOMAIN ledger' : ledger'[i].id = id}) = 1
                    /\ \A i \in DOMAIN ledger' :
                          ledger'[i].id = id => ledger'[i].status = "open"
                    /\ Cardinality({k \in DOMAIN log' : log'[k].trade_id = id}) = 1
                    /\ Len(log') = Len(log) + 1
                    /\ log'[Len(log')].trade_id = id]_vars

\* C25 witness: one call has committed its trade and not yet written its audit
\* entry, while the other has returned success with both writes made.
C25_Witness ==
    \E p \in Procs, q \in Procs :
        /\ pc[p] = "log" /\ writes[p] = 1
        /\ \E i \in DOMAIN ledger : ledger[i].id = Val(new_trade[p]).id
        /\ \A k \in DOMAIN log : log[k].trade_id # Val(new_trade[p]).id
        /\ pc[q] = "done" /\ writes[q] = 2
        /\ ~IsNone(result[q])
        /\ "success" \in DOMAIN Val(result[q]) /\ Val(result[q]).success
        /\ Len(log) = 1 /\ Len(ledger) = 2

\* C26: when a call has made both of its reads, the exposure it hands to
\* check_limits has the total and the count of the positions it hands over
\* with it.
C26_OneLedgerStatePerDecision ==
    \A p \in Procs :
        pc[p] = "daily" =>
            LET exposure == ExposureReport(exp_positions[p],
                                today_trades(ledger, now, settings.utc_offset),
                                settings)
            IN  /\ exposure.total_exposure = SumAmount(positions[p])
                /\ exposure.position_count = Len(positions[p])

\* Max drawdown has been computed for a list of trades.
DrawdownDone ==
    /\ ~IsNone(args) /\ ~IsNone(ret)
    /\ Val(args).fn = "_calculate_max_drawdown"

\* The lists that hold the same trades in another order.
Reorderings(trades) ==
    {[i \in DOMAIN trades |-> trades[order[i]]] :
        order \in {f \in [DOMAIN trades -> DOMAIN trades] :
                      \A i, j \in DOMAIN trades : i # j => f[i] # f[j]}}

\* No two trades of the list have the same resolution time (creation time
\* when there is none).
DistinctTimes(trades) ==
    \A i, j \in DOMAIN trades :
        i # j => DrawdownKey(trades[i]) # DrawdownKey(trades[j])

\* The trades by resolution time, those of one time in the order of the list.
ByTimeThenPlace(trades) ==
    [k \in DOMAIN trades |->
        trades[CHOOSE i \in DOMAIN trades :
            Cardinality({j \in DOMAIN trades :
                \/ DrawdownKey(trades[j]) < DrawdownKey(trades[i])
                \/ DrawdownKey(trades[j]) = DrawdownKey(trades[i]) /\ j < i})
              = k - 1]]

\* The cumulative PnL after the first k trades.
RECURSIVE CumulativePnl(_, _)
CumulativePnl(trades, k) ==
    IF k = 0 THEN FracOfInt(0)
    ELSE FracAdd(CumulativePnl(trades, k - 1), PnlOrZero(trades[k]))

\* The largest gap between the cumulative PnL at a point (the zero before
\* the first trade included) and the cumulative PnL at a later-or-equal point.
LargestGap(trades) ==
    LET gaps == {FracSub(CumulativePnl(trades, i), CumulativePnl(trades, j)) :
                    <<i, j>> \in {pt \in (0..Len(trades)) \X (0..Len(trades)) :
                                    pt[1] <= pt[2]}}
    IN  CHOOSE g \in gaps : \A h \in gaps : ~FracGt(h, g)

\* C27 as stated: the max drawdown of a list is that of every reordering of
\* it.
C27_DrawdownWhateverTheOrder ==
    DrawdownDone =>
        \A other \in Reorderings(Val(args).trades) :
            _calculate_max_drawdown(other) = Val(ret)

\* C27: the max drawdown of a list is the largest gap between the running
\* peak of the cumulative PnL and the cumulative PnL at a later-or-equal
\* point, over the trades by resolution time (creation time when there is
\* none), trades of one time in the order of the list; it is the same for
\* every reordering of a list whose trades have different times; it is never
\* negative, 0 for an empty list, and 0 when every trade adds to the
\* cumulative PnL.
C27_DrawdownOverTradesByTime ==
    DrawdownDone =>
        LET trades == Val(args).trades
        IN  /\ Val(ret) = LargestGap(ByTimeThenPlace(trades))
            /\ DistinctTimes(trades) =>
                  \A other \in Reorderings(trades) :
                      _calculate_max_drawdown(other) = Val(ret)
            /\ ~FracGt(FracOfInt(0), Val(ret))
            /\ trades = <<>> => Val(ret) = FracOfInt(0)
            /\ (\A i \in DOMAIN trades : FracGt(PnlOrZero(trades[i]), FracOfInt(0)))
                  => Val(ret) = FracOfInt(0)

\* C27 witness: the trades resolved on days 1 and 2 and the one that lost 4
\* on day 3, listed latest first, gave the drawdown 9 of their order in time.
C27_Witness ==
    /\ DrawdownDone
    /\ Len(Val(args).trades) = 3
    /\ Val(args).trades[1].id = 4
    /\ Val(args).trades[2].id = 2
    /\ Val(args).trades[3].id = 1
    /\ Val(ret) = FracOfInt(9)

Min(a, b) == IF a <= b THEN a ELSE b

\* C28: when the dry run has answered for an opportunity of a positive amount
\* within max_position_size on a market with no open position, it allowed the
\* trade exactly when the amount is within both the available_capital and the
\* daily_remaining that get_exposure reports in that ledger state.
C28_DryRunAgreesWithExposureReport ==
    \A o \in Opportunities :
        (/\ Previewed(o)
         /\ 0 < o.recommended_amount
         /\ o.recommended_amount <= settings.max_position_size
         /\ MarketIsFree(o))
        => LET exposure == get_exposure(ledger, now, settings)
           IN  Val(ret).allowed <=>
                  o.recommended_amount
                      <= Min(exposure.available_capital, exposure.daily_remaining)

\* C28 witness: forced trades hold the open exposure over the cap, and the
\* dry run denied an opportunity on a free market that is within the position
\* size and within the day's remaining volume.
C28_Witness ==
    \E o \in Opportunities :
        /\ Previewed(o)
        /\ o.recommended_amount <= settings.max_position_size
        /\ MarketIsFree(o)
        /\ \E i \in DOMAIN ledger : origin[i].force /\ ledger[i].status = "open"
        /\ get_exposure(ledger, now, settings).total_exposure
              > settings.max_total_exposure
        /\ get_exposure(ledger, now, settings).available_capital = 0
        /\ get_exposure(ledger, now, settings).daily_remaining
              >= o.recommended_amount
        /\ ~Val(ret).allowed

\* C29: a resolved trade has status resolved_win exactly when its side is its
\* resolution outcome; a won trade's stored PnL is shares - amount, and a
\* lost trade's is -amount.
C29_WinMatchesOutcome ==
    \A i \in DOMAIN ledger :
        ledger[i].status \in ResolvedStates =>
            LET t == ledger[i]
                won == t.resolution_outcome = Some(t.side)
            IN  /\ t.status = "resolved_win" <=> won
                /\ won => t.pnl = Some(FracSub(t.shares, FracOfInt(t.amount)))
                /\ ~won => t.pnl = Some(FracOfInt(-t.amount))

====
